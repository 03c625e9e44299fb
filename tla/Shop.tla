-------------------------------- MODULE Shop --------------------------------
(***************************************************************************)
(* The reader's client with Library: the cart that CartService keeps of    *)
(* the server's, the commands that go from the wishlist to the cart and    *)
(* from there to the books one owns, and the page of one book              *)
(* (BookDetailViewModel). All of them wait on the stack of Library.        *)
(***************************************************************************)
EXTENDS Library

CONSTANTS
  Browsed,         \* books the reader opens the page of, and no more
  NoBook

ASSUME ShopAssumption == NoBook \notin Books \cup Browsed

Pages == Books \cup Browsed

VARIABLES
  cart,        \* CartItems
  cartRow,     \* users with a row in Carts, without which nothing is added
  basket,      \* CartService::m_cartData
  page,        \* BookDetailViewModel: m_bookId, what is shown, m_pending, m_timer
  reviews,     \* whose Reviews are there, and of which book
  misfilled,   \* history: basket is known to be off, see BasketShown
  meant,       \* history: which book a reader saw when they sent a review
  crossed      \* history: a book was opened while a page waited

pageVars == <<page, reviews, meant, crossed>>
shopVars == <<cart, cartRow, basket, misfilled, pageVars>>
allVars == <<vars, shopVars>>

NoBasket == [any |-> FALSE, items |-> {}]

ShopInit ==
  /\ Init
  /\ cart = [u \in Users |-> {}]
  /\ cartRow = {u \in Users : Mine(shelves, u) # {}}
  /\ basket = NoBasket
  /\ page = [id |-> NoBook, book |-> NoBook, reviews |-> NoBook, mine |-> NoBook,
             pending |-> "none", busy |-> FALSE, timer |-> FALSE]
  /\ reviews = {} /\ meant = {}
  /\ misfilled = FALSE /\ crossed = FALSE

-----------------------------------------------------------------------------
(* The server: CartRequestHandler, and the book page's requests.            *)

ShopServed == UNCHANGED <<shelves, session, who, local, bounds, skewed, drifted,
                          basket, page, meant, crossed>>
CartServed == ShopServed /\ UNCHANGED reviews

Cart(items) == [is |-> "ok", items |-> items]

Moving == {stack[i].cmd.book : i \in {j \in DOMAIN stack : stack[j].op = "toCart"}}

\* What a request makes of the user's cart, and what the user takes off it, which
\* is torn if it is on its way there. CartService learns of it from the reply if
\* it still waits.
CartBecomes(items, off, got) ==
  /\ cart' = [cart EXCEPT ![session] = items]
  /\ torn' = torn \cup (Moving \cap off)
  /\ Reply(got, IF cart' # cart \/ owned' # owned THEN Aged(stack) ELSE stack)
  /\ misfilled' = (misfilled \/ (cart' # cart /\ Late))

RefuseShopping(got) ==
  Reply(got, stack) /\ UNCHANGED <<cart, cartRow, owned, behind, kept, torn, misfilled>>

Elsewhere(u) == OnShelves(shelves, u) \cup owned[u]

\* getOrCreateForUser ends every command but ClearCart.
OpenCart == cartRow' = cartRow \cup {session}

HandleGetCart ==
  /\ Handle("cart") /\ CartServed
  /\ IF session = Nobody THEN RefuseShopping(Failed)
     ELSE /\ UNCHANGED <<owned, behind, kept>>
          /\ CartBecomes(cart[session], {}, Cart(cart[session])) /\ OpenCart

\* A book that is owned is a conflict. Without a Carts row nothing is added, and
\* the reply says success.
HandleAddToCart ==
  /\ Handle("put") /\ CartServed
  /\ IF session = Nobody THEN RefuseShopping(Failed)
     ELSE IF Cmd.book \in owned[session] THEN RefuseShopping([is |-> "conflict"])
     ELSE LET items == IF session \in cartRow THEN cart[session] \cup {Cmd.book}
                       ELSE cart[session]
          IN /\ UNCHANGED <<owned, behind, kept>>
             /\ CartBecomes(items, {}, Cart(items)) /\ OpenCart

HandleRemoveFromCart ==
  /\ Handle("take") /\ CartServed
  /\ IF session = Nobody THEN RefuseShopping(Failed)
     ELSE LET items == cart[session] \ {Cmd.book}
              half == Head(wire).op = "again" /\ ~ Late
          IN /\ UNCHANGED <<owned, behind>>
             /\ CartBecomes(items, IF half THEN {} ELSE cart[session] \ items, Cart(items))
             /\ OpenCart
             /\ kept' = IF half THEN kept
                        ELSE [kept EXCEPT ![session] = @ \cap (Elsewhere(session) \cup items)]

HandleClearCart ==
  /\ Handle("empty") /\ CartServed
  /\ IF session = Nobody THEN RefuseShopping(Failed)
     ELSE /\ UNCHANGED <<owned, behind, cartRow>>
          /\ CartBecomes({}, cart[session], Cart({}))
          /\ kept' = [kept EXCEPT ![session] = @ \cap Elsewhere(session)]

\* An empty cart is refused. LibraryService does not hear of a purchase.
HandleCheckout ==
  /\ Handle("checkout") /\ CartServed
  /\ IF session = Nobody \/ cart[session] = {} THEN RefuseShopping(Failed)
     ELSE /\ owned' = [owned EXCEPT ![session] = @ \cup cart[session]]
          /\ behind' = TRUE /\ UNCHANGED kept
          /\ CartBecomes({}, {}, Cart({})) /\ OpenCart

HandleGetBookDetails ==
  /\ Handle("details") /\ CartServed
  /\ IF session = Nobody THEN RefuseShopping(Failed)
     ELSE RefuseShopping([is |-> "ok", book |-> Cmd.book,
                          mine |-> <<session, Cmd.book>> \in reviews])

\* SubmitReview or UpdateReview
HandleSubmitReview ==
  /\ Handle("review") /\ ShopServed
  /\ IF session = Nobody THEN RefuseShopping(Failed) /\ UNCHANGED reviews
     ELSE RefuseShopping([is |-> "ok"]) /\ reviews' = reviews \cup {<<session, Cmd.book>>}

-----------------------------------------------------------------------------
(* CartService. Reads of an empty cache fetch it first (ReadCart).          *)

Put(b) == [do |-> "put", book |-> b]
Take(b) == [do |-> "take", book |-> b]
FetchCart == [do |-> "cart"]

ShopAsk(op, cmd, more) ==
  Ask(op, cmd, more) /\ UNCHANGED <<cart, cartRow, misfilled, pageVars>>

ReadCart == ~ basket.any /\ ShopAsk("cart", FetchCart, <<>>) /\ UNCHANGED basket
RefreshCart == ShopAsk("cart", FetchCart, <<>>) /\ basket' = NoBasket
Add(b) == ShopAsk("cart", Put(b), <<>>) /\ UNCHANGED basket
RemoveFromCart(b) == ShopAsk("cart", Take(b), <<>>) /\ UNCHANGED basket
Clear == ShopAsk("clear", [do |-> "empty"], <<>>) /\ UNCHANGED basket
SetQuantity(b) == ShopAsk("again", Take(b), <<Put(b)>>) /\ UNCHANGED basket
Checkout == ShopAsk("checkout", [do |-> "checkout"], <<>>) /\ UNCHANGED basket

\* BookDetailViewModel::buyNow
BuyNow(b) == ShopAsk("checkout", Put(b), <<[do |-> "checkout"]>>) /\ UNCHANGED basket

ShopAtClient == AtClient /\ UNCHANGED <<cart, cartRow, pageVars>>
LibraryKept == UNCHANGED <<lib, skewed, behind>>
MovesKept == UNCHANGED torn
HeartsKept == UNCHANGED <<hearts, drifted>>

FillMerging ==
  IF Worked THEN basket' = [any |-> TRUE, items |-> basket.items \cup Innermost.got.items]
                 /\ misfilled' = Innermost.old
  ELSE UNCHANGED <<basket, misfilled>>

\* The reply of a cart command replaces the cache.
Fill ==
  IF Worked THEN basket' = [any |-> TRUE, items |-> Innermost.got.items]
                 /\ misfilled' = Innermost.old
  ELSE UNCHANGED <<basket, misfilled>>

Conflicting == Innermost.got.is = "conflict"
GoOn(cmd, more) ==
  Resume([Innermost EXCEPT !.cmd = cmd, !.more = more, !.got = None, !.old = FALSE])

\* add: a conflict empties the cache and fetches the cart.
AddingReturns(op, then) ==
  /\ Returned(op) /\ Innermost.cmd.do = "put"
  /\ IF Conflicting
     THEN basket' = NoBasket /\ UNCHANGED misfilled /\ GoOn(FetchCart, Innermost.more)
     ELSE Fill /\ then

CartReturns ==
  /\ ShopAtClient /\ LibraryKept /\ HeartsKept /\ MovesKept
  /\ \/ AddingReturns("cart", Ends)
     \/ Returned("cart") /\ Innermost.cmd.do # "put" /\ Fill /\ Ends

\* clear: without the server's help, one request per book of the cache.
EachTaken(items) == SetToSeq({Take(b) : b \in items})

TakeEach(takes) ==
  IF takes = <<>> THEN Ends /\ basket' = NoBasket
  ELSE GoOn(Head(takes), Tail(takes)) /\ UNCHANGED basket

ClearReturns ==
  /\ Returned("clear") /\ ShopAtClient /\ LibraryKept /\ HeartsKept /\ MovesKept /\ UNCHANGED misfilled
  /\ CASE Innermost.cmd.do = "empty" ->
            IF Worked THEN Ends /\ basket' = NoBasket
            ELSE IF basket.any THEN TakeEach(EachTaken(basket.items))
            ELSE GoOn(FetchCart, <<>>) /\ UNCHANGED basket
       [] Innermost.cmd.do = "cart" ->
            TakeEach(EachTaken(IF Worked THEN Innermost.got.items ELSE basket.items))
       [] OTHER -> TakeEach(Innermost.more)

\* setQuantity: taken out and put in again; if that fails, once more, but only
\* for a book the cache held.
AgainReturns ==
  /\ Returned("again") /\ ShopAtClient /\ LibraryKept /\ HeartsKept
  /\ IF Innermost.cmd.do = "take"
     THEN /\ UNCHANGED basket
          /\ misfilled' = (misfilled \/ Worked)
          /\ NextRequest(IF Worked
                         THEN Innermost.more \o IF Innermost.cmd.book \in basket.items
                                                THEN Innermost.more ELSE <<>>
                         ELSE <<>>)
     ELSE Fill /\ NextRequest(IF Worked THEN <<>> ELSE Innermost.more)
  /\ torn' = IF Innermost.cmd.do = "put" /\ ~ Worked /\ Innermost.more = <<>>
             THEN torn \cup {Innermost.cmd.book} ELSE torn

\* checkout: the cart is fetched, and BookService forgets its lists.
CheckoutReturns ==
  /\ ShopAtClient /\ LibraryKept /\ MovesKept
  /\ \/ AddingReturns("checkout", NextRequest(Innermost.more)) /\ HeartsKept
     \/ /\ Returned("checkout") /\ Innermost.cmd.do = "checkout" /\ UNCHANGED misfilled
        /\ HeartsKept
        /\ IF Worked THEN basket' = NoBasket /\ GoOn(FetchCart, <<>>)
           ELSE Ends /\ UNCHANGED basket
     \/ /\ Returned("checkout") /\ Innermost.cmd.do = "cart" /\ Fill
        /\ NextRequest(Innermost.more)
        /\ IF Innermost.more = <<>> THEN hearts' = {} /\ UNCHANGED drifted ELSE HeartsKept

-----------------------------------------------------------------------------
(* WishlistViewModel::moveToCart: CartService::add, and whatever came of    *)
(* it LibraryService::removeFromWishlist.                                   *)

MoveToCart(b) ==
  b \in WishBooks(lib.shelves) /\ ShopAsk("toCart", Put(b), <<>>) /\ UNCHANGED basket

\* The wishlist is looked up in the cached library, fetched if there is none.
Unwish(l, b) ==
  IF ~ l.any /\ Innermost.cmd.do # "get" THEN GoOn([do |-> "get", book |-> b], <<>>)
  ELSE IF WishPlace(l.shelves) = 0 THEN Ends
  ELSE GoOn([do |-> "drop", shelf |-> l.shelves[WishPlace(l.shelves)].id, book |-> b], <<>>)

ToCartKept == AtClient /\ HeartsKept /\ UNCHANGED <<cart, cartRow, pageVars>>

\* The book is lost if the server did not put it into the cart; the reader who
\* owns it has it.
ToCartAdded ==
  /\ Returned("toCart") /\ Innermost.cmd.do = "put" /\ ToCartKept /\ LibraryKept
  /\ LET b == Innermost.cmd.book
     IN /\ IF Conflicting
           THEN /\ basket' = NoBasket /\ UNCHANGED misfilled
                /\ GoOn([do |-> "cart", book |-> b], <<>>)
           ELSE Fill /\ Unwish(lib, b)
        /\ torn' = IF Conflicting \/ (Worked /\ b \in Innermost.got.items) THEN torn
                   ELSE torn \cup {b}

ToCartRefreshed ==
  /\ Returned("toCart") /\ Innermost.cmd.do = "cart" /\ ToCartKept /\ LibraryKept
  /\ Fill /\ Unwish(lib, Innermost.cmd.book) /\ UNCHANGED torn

ToCartRead ==
  /\ Returned("toCart") /\ Innermost.cmd.do = "get" /\ ToCartKept
  /\ UNCHANGED <<basket, misfilled, torn>>
  /\ IF Worked
     THEN /\ lib' = [any |-> TRUE, owned |-> Innermost.got.owned,
                     shelves |-> Innermost.got.shelves]
          /\ skewed' = Innermost.old /\ behind' = Innermost.old
     ELSE UNCHANGED <<lib, skewed, behind>>
  /\ Unwish(lib', Innermost.cmd.book)

ToCartReturns ==
  /\ Returned("toCart") /\ Innermost.cmd.do = "drop" /\ ToCartKept
  /\ Ends /\ lib' = IF Worked THEN Empty ELSE lib
  /\ UNCHANGED <<skewed, behind, basket, misfilled, torn>>

-----------------------------------------------------------------------------
(* The page of a book. A short timer comes between what the reader does and *)
(* its requests, each of which is for the book the page is of by then.      *)

Loading == \E i \in DOMAIN stack : stack[i].op \in {"page", "review"}

AtPage ==
  /\ who # Nobody /\ Dispatching /\ calls < MaxCalls /\ calls' = calls + 1
  /\ UNCHANGED <<data, session, who, local, stack, wire, faults, history, cart, cartRow,
                 basket, misfilled, reviews>>

Begun(p, op) == [p EXCEPT !.pending = op, !.busy = TRUE, !.timer = TRUE]
Finished(p) == [p EXCEPT !.pending = "none", !.busy = FALSE]

\* What was pending is dropped for the new book.
LoadBook(b) ==
  /\ AtPage /\ UNCHANGED meant
  /\ page' = Begun([page EXCEPT !.id = b], "load")
  /\ crossed' = (crossed \/ Loading)

Seen == IF page.book = NoBook THEN page.id ELSE page.book

SubmitReviewAnyTime ==
  /\ page.id # NoBook /\ AtPage
  /\ page' = Begun(page, "submit") /\ meant' = meant \cup {<<who, Seen>>}
  /\ UNCHANGED crossed

\* Refused while something is pending. The reader has written it on the page.
SubmitReview ==
  /\ page.id # NoBook /\ ~ page.busy /\ AtPage
  /\ page' = Begun(page, "submit") /\ meant' = meant \cup {<<who, Seen>>}
  /\ UNCHANGED crossed

Fire(op, cmd, more) ==
  /\ stack' = Append(stack, [op |-> op, cmd |-> cmd, more |-> more, got |-> None, old |-> FALSE])
  /\ wire' = Append(wire, [op |-> op, cmd |-> cmd, depth |-> Len(stack) + 1])

Details(b) == [do |-> "details", book |-> b]

\* onAsyncReady, for what is pending by now. The reader's own review is updated
\* if the page has found one.
OnAsyncReady ==
  /\ page.timer /\ Dispatching /\ Len(stack) < MaxDepth
  /\ CASE page.pending = "load" ->
            Fire("page", Details(page.id), <<"reviews">>) /\ page' = [page EXCEPT !.timer = FALSE]
       [] page.pending = "submit" ->
            /\ page' = [page EXCEPT !.timer = FALSE]
            /\ Fire("review", [do |-> "review",
                               book |-> IF page.mine = NoBook THEN page.id ELSE page.mine],
                    <<"reviews", "book">>)
       [] OTHER -> page' = [Finished(page) EXCEPT !.timer = FALSE] /\ UNCHANGED <<stack, wire>>
  /\ UNCHANGED <<data, session, who, local, bounds, history, cart, cartRow, basket, misfilled,
                 reviews, meant, crossed>>

Showing == IF Worked THEN Innermost.got.book ELSE NoBook
WithBook(p) == [p EXCEPT !.book = Showing]
WithReviews(p) ==
  [p EXCEPT !.reviews = Showing,
            !.mine = IF Worked /\ Innermost.got.mine THEN Innermost.got.book ELSE NoBook]

OnPage(op) ==
  /\ Returned(op) /\ AtClient
  /\ UNCHANGED <<local, skewed, behind, drifted, torn, cart, cartRow, basket, misfilled,
                 reviews, meant, crossed>>

RefreshNext ==
  Resume([Innermost EXCEPT !.cmd = Details(page.id), !.more = Tail(@), !.got = None])

\* _refreshBook, then _refreshReviews; which review is the reader's own is
\* forgotten at the end.
LoadReturns ==
  /\ OnPage("page")
  /\ IF Innermost.more # <<>> THEN page' = WithBook(page) /\ RefreshNext
     ELSE page' = [Finished(WithReviews(page)) EXCEPT !.mine = NoBook] /\ Ends

\* The review, then _refreshReviews and _refreshBook, whatever came of it.
ReviewReturns ==
  /\ OnPage("review")
  /\ IF Innermost.cmd.do = "review" THEN UNCHANGED page /\ RefreshNext
     ELSE IF Innermost.more # <<>> THEN page' = WithReviews(page) /\ RefreshNext
     ELSE page' = Finished(WithBook(page)) /\ Ends

-----------------------------------------------------------------------------
CartService ==
  \/ ReadCart \/ RefreshCart \/ Clear \/ Checkout
  \/ CartReturns \/ ClearReturns \/ AgainReturns \/ CheckoutReturns
  \/ \E b \in Books : Add(b) \/ RemoveFromCart(b) \/ SetQuantity(b)

WishlistViewModel ==
  \/ ToCartAdded \/ ToCartRefreshed \/ ToCartRead \/ ToCartReturns
  \/ \E b \in Books : MoveToCart(b)

BookDetailViewModel ==
  \/ SubmitReview \/ OnAsyncReady \/ LoadReturns \/ ReviewReturns
  \/ \E b \in Pages : LoadBook(b)
  \/ \E b \in Books : BuyNow(b)

ShopServer ==
  \/ HandleGetCart \/ HandleAddToCart \/ HandleRemoveFromCart \/ HandleClearCart
  \/ HandleCheckout \/ HandleGetBookDetails \/ HandleSubmitReview

\* The cart survives the user of the client as the other lists do. Nobody signs
\* out within the 45 ms of a page's timer.
LibrarySteps ==
  /\ Next /\ (who' # who => ~ page.timer) /\ UNCHANGED <<cart, cartRow, basket, pageVars>>
  /\ misfilled' = (misfilled \/ who' # who)

ShopNext ==
  \/ LibrarySteps \/ CartService \/ WishlistViewModel \/ BookDetailViewModel \/ ShopServer

ShopSpec == ShopInit /\ [][ShopNext]_allVars

-----------------------------------------------------------------------------
ShopTypeOK ==
  /\ TypeOK
  /\ cart \in [Users -> SUBSET Books] /\ cartRow \subseteq Users
  /\ basket \in [any : BOOLEAN, items : SUBSET Books] /\ (~ basket.any => basket = NoBasket)
  /\ page \in [id : Pages \cup {NoBook}, book : Pages \cup {NoBook},
               reviews : Pages \cup {NoBook}, mine : Pages \cup {NoBook},
               pending : {"none", "load", "submit"}, busy : BOOLEAN, timer : BOOLEAN]
  /\ reviews \subseteq Users \X Pages
  /\ \A u \in Users : cart[u] # {} => u \in cartRow

\* The library page shows the user's shelves and purchases, through commands
\* nested in each other, refused, late and lost.
LibraryShown == ShopTypeOK /\ ShelvesShown /\ PurchasesShown

\* Once nothing is under way, the cart on the page is the cart at the server,
\* through additions that are refused, a cart emptied book by book and
\* purchases, unless a request was given up, replies came in another order, or
\* a book was taken out to be put in again.
BasketShown == AtRest /\ basket.any /\ who # Nobody => misfilled \/ basket.items = cart[who]

\* A book a user put on a shelf and did not take off is on a shelf, in the cart
\* or owned: no move loses it, unless the server refused or did not get the
\* request that puts it down, or the client gave up the one that takes it.
MovesLoseNothing ==
  AtRest => \A u \in Users : kept[u] \subseteq OnShelves(shelves, u) \cup cart[u] \cup owned[u] \cup torn

\* What the user owns is not in their cart, so no book is bought twice, whatever
\* was on its way when it was bought.
OwnedNotInCart == \A u \in Users : owned[u] \cap cart[u] = {}

\* The cart the user looks at is the cart the server would sell, and nothing in
\* it is sold already.
CartsAgree == BasketShown /\ OwnedNotInCart

\* A page does not stay busy; and it shows the book it is of with the reviews of
\* that book, or nothing where a request failed, unless another book was opened
\* while it waited.
PageWhole ==
  AtRest /\ ~ page.timer =>
    /\ ~ page.busy
    /\ crossed \/ {page.book, page.reviews} \subseteq {page.id, NoBook}

\* Every review is of a book its writer saw when they sent it: no timer that
\* was running sends one to the book that was opened next, unless that was
\* while the page waited for the server.
ReviewsMeant == crossed \/ reviews \subseteq meant

\* The page, what the user reads on it and what they write from it are about
\* one book.
PageAgrees == PageWhole /\ ReviewsMeant
=============================================================================
