# Verification of BookClub

TLA+ models of the BookClub client/server system, checked with TLC and, where the
properties matter for every size of the system, proved with TLAPS. Paths are relative to
the repository root: the server and the shared network code are in `src/`, the QML client
is in `client/`.

## The system

BookClub is a book shop with libraries, reviews and group reading. One server process
keeps everything in one SQLite file; desktop clients (Qt/QML) talk to it over TCP with
length-prefixed JSON messages. Both sides are single-threaded event loops. What makes the
server hard is a process that can die between any two statements, and handlers of many
connections in any order. What makes the client hard is `NetworkService::sendRequest`: it
waits for its reply in an event loop of its own, so while one command waits the user
starts the next, timers fire and events come in; the command that came last returns first,
and every list a service caches is written by code that read something before its wait.

| Component | State | Operations | Talks to |
|---|---|---|---|
| Connection registry and identities (`ConnectionManager`, `ClientConnection`, `AuthRequestHandler`, the account half of `AdminRequestHandler`) | live connections, the user of each, the map from users to connections, the status column | accept, disconnect, login, register, logout, block, unblock, delete, restart | every component that pushes |
| Accounts and sign-in pages (`AuthService` of both sides, the auth view models) | accounts, profiles, genres; saved credentials, recovery | register, login, logout, recover, change password, choose genres, remember me | registry, client link |
| Cart and checkout (`CartRequestHandler`, cart and order repositories, `BookService::purchaseCart`) | Carts, CartItems, Orders, OrderItems, totalSales | add, remove, clear, get, discount code, checkout | catalogue, notifications |
| Catalogue, discounts, reviews, ratings (publisher, book and moderation handlers and their repositories) | Books, BookGenres, Discounts, Reviews, Ratings, the PDF store | publish, update, switch, discount, upload, sweep, review, rate, react, moderate | |
| Library (`LibraryRequestHandler`; `LibraryService`, `BookService`, their view models) | shelves; the client's library, wishlist, hearts | create, rename, duplicate, delete, add, remove, move, toggle | catalogue, cart |
| Cart, wishlist and book page of the client (`CartService`, four view models) | cart cache, page of a book | fetch, add, remove, clear, move, buy, open a page, review, rate | library |
| Publisher desk (`PublisherService`, its view model) | catalogue, sales, promotions, analytics | add, edit, remove, discount, promote, refresh | catalogue, notifications |
| Notifications (`NotificationDispatcher`, its handler; `NotificationService`) | Notifications; the feed | store and push, fetch, mark, delete | registry, client link |
| Moderation and monitoring (`AdminService`, `ServerService`, their view models, the handlers behind) | lists of users, books and reviews; figures, logs, clients | block, delete, switch, remove, refresh, kick, clear | registry, catalogue |
| Reader (`ReaderService`, `ReaderViewModel`, the PDF view) | open book, file, page, last pages | open, download, turn, close | book files |
| Home and search (`HomeViewModel`, `SearchViewModel`, `BookService`) | sections, lists, criteria, results | load in two waves, refresh, event, search, filter | catalogue, library |
| Group reading (`StudySessionManager`, its handler, `StudySessionViewModel`) | sessions, participants, notes; the room panel | create, join, leave, add note, fetch notes, chat, page sync, invite | registry, client link |
| Client link (`NetworkService`, `ClientNetworkManager`, `PacketParser`) | socket, reconnect timer, parser, reply and event handlers | connect, send and wait, send with a callback, route, reconnect | every client service |
| Request routing, database start-up, server process, book files | handlers; schema; timers; files | route, migrate, seed, start, stop, read, write | all |

Hard behaviours, component by component, are the hazards of `PROJECT.json`, each at its
line and with the properties about it.

## Modules

| Module | Models | Instance | Proofs |
|---|---|---|---|
| `Connections` | registry and identities | `MCConnections` | `NetworkProofs` |
| `PurchaseLedger` | abstract specification: what a checkout promises about the file | | |
| `Checkout` | carts and checkout, statement by statement, crashes, failing statements | `MCCheckout` | `CheckoutProofs` |
| `Catalog` | books and what is kept beside them, statement by statement, crashes, the sweep | `MCCatalog` | `CatalogProofs` |
| `StudyRoom` | group reading: sessions, panels, the queues between | `MCStudyRoom` | `StudyRoomProofs` |
| `ClientLink` | one client's link: connections, nested waits, callbacks, late replies, cut packets | `MCClientLink` | `NetworkProofs` |
| `Accounts` | the sign-in pages of a client and the server's handlers | `MCAccounts` | `AccountsProofs` |
| `Desk` | publisher's desk and notification feed, with the server's handlers | `MCDesk` | `DeskProofs` |
| `Library` | shelves at the server and the two copies a client keeps | | `ShopProofs` |
| `Shop` | Library composed with the cart, the moves between them, the page of a book | `MCLibrary` | `ShopProofs` |
| `Waits` | how services wait in nested loops, shared by the next five | | |
| `Moderator`, `Monitor`, `Reader`, `Home`, `Search` | one part of the client each, with the handlers behind it | | |
| `Shells` | the five composed | `MCShells` | `ShellsProofs` |

Operators named `...Without...`, `...Again`, `...Keeping...`, `...Quietly` and so on that
stand before an action of almost the same name and that no action uses are mutants:
versions of that action with one plausible mistake, listed in `PROJECT.json`. For every
property of a passing run there is one that TLC catches.

**Connections.** `conns` is `m_connections`, `userToClient` is `m_userToClientMap`,
`connUser` and `authed` are two fields of `ClientConnection`, `status` is the column of
Users. An action is a whole handler: `Login` is `handleLogin` with `AuthService::login`,
`Disconnect` is `onDisconnected` down to `removeConnection`. `shared` holds the users that
have had two sessions at once since the server started; the properties about reachability
are about the others, because for users with two sessions the code does not keep them.

**PurchaseLedger and Checkout.** `db` is what the server's connection sees and `disk` what
a crash leaves; they differ only while a transaction is open. `pc` is the next durable step
of the one checkout that can run at a time; other commands are enabled only when it is
"idle", `Crash` always is. With `Faults` a statement whose result the handler ignores may
fail silently, one whose result it tests takes the error path, and `beginTransaction` may
fail. Checkout refines PurchaseLedger under orders, bought, sales <- the three tables of
`disk`: the commit is the `Purchase` step and everything before and after it a stutter.
A new database is seeded: the sample data has carts, sales counters without an order and a
notification of a sale (`Seeded`, `SeededSales`, `SeededNotices`), and the properties about
counters and notices count from there.

**Catalog.** No transaction here, so a handler is its first statement and what it leaves
in `todo`: genres still to insert, a summary to recompute, a path to store, promotions to
mark. `Crash` loses `todo`; nothing else ever repairs what it was. A discount is kept as in
the column, an amount, which the payload gives unchecked, whatever the price. A book that is
seeded comes with its genres, review and rating. `over` holds the promotions that were over
when a sweep finished. `stale` and `torn` name the books whose summary or
genres the code is known to spoil (an update by the owner, a crash at that point), so that
the properties are about every other way.

**StudyRoom.** The server's side is `state`, `members`, `notes`; the client's is `current`,
`people`, `shown`. Three queues per client: requests, what the server sends, and the event
handlers `subscribeEvent` has posted. Replies are not posted and so overtake events.
`calls` is the stack of waiting calls. `Reentrant` says whether users click while they wait,
`MayTimeOut` whether requests time out.

**ClientLink.** `sock`, `timer` and `hostKnown` are the connection and its retries; `stack`,
`quit` and `answer` the nested waits; `armed`, `fired`, `posted`, `ran` the requests with
callbacks; `parser` is "cut" when half a packet is in the buffer of a lost connection and
"deaf" when the next bytes are read as the rest of it.

**Accounts.** One client, the server's tables and the session of the connection, and a
server that can die between the two INSERTs of a publisher. `stack` holds the calls that
wait, each in the event loop of the one before: a page blocks only itself
(`AuthViewModelBase::submit`), the links to the other pages stay enabled, and the register
page probes the username at every keystroke, so a login can be nested in a registration and
the other way round. `wire` holds the requests under way, those the client has given up
included, which the server serves all the same. The fields of a page are read whenever the
code reads them: before the wait or after it. A reset that succeeds has the saved
credentials removed if its page is still there (`ClearSavedCredentials`). Whether an
administrator has blocked the account is left open here (`HandleLogin` may refuse);
`Connections` has the status.

**Desk, Library, Shop.** Each request is an element of `wire`, with the depth of the wait
it answers, 0 once that has been given up; each wait an element of `stack` with the code
that goes on after it. A command of several requests goes through several waits. The
client's copies (`analytics`, `promos`, `feed`; `lib`, `hearts`; `basket`, `page`) are written exactly where
the services write them, from what was read before the wait or found after it.

**Shells.** The same, on the common `Waits`, for the administrator's lists (`Moderator`), the
figures (`Monitor`), the reader, the home page and the search page. They share nothing but
the way they wait, so a behaviour is one part's (`shell`); `AdminRefresh` is of two of
them, because one service keeps both.

## Runs

| Run | Instance | What it shows |
|---|---|---|
| `connections` | 3 users (2 admins, one unregistered), 3 connection ids | pushes reach nobody else; a user with one session is reachable and told of a block; identities only for accounts in good standing |
| `checkout` | 2 users (one with a Carts row), 2 books with seeded counters, at most 2 orders each, crashes | tables agree, confirmed purchases last, notices are backed, and Checkout implements PurchaseLedger |
| `checkout_faults` | 1 user, 2 books, failing statements | duplicates only from carts that outlived their order |
| `catalog` | 1 book (seeded, with genre, review and rating, or not), 1 reader who reviews and rates, 1 genre, 1 promotion, 2 prices, crashes; fairness | summaries, files and genres agree with what they are kept from; a promotion that is over is swept, frees its book, and does so once |
| `study_room` | 2 readers, 1 room, 1 note, 2 calls each; they wait for answers | a panel at rest is complete, participants agree |
| `study_room_free` | 2 readers, 1 room, 2 notes, 1 call each; they do not wait, requests time out | no duplicates; open exactly while somebody is in |
| `client_link` | 2 waiting calls, 1 callback, 1 message without reply, 1 event, 1 lost connection; fairness | every reply to its own call, every call returns, every callback runs once |
| `client_link_retry` | 1 waiting call, 1 lost connection; fairness | a statement of a comment is violated |
| `accounts` | a reader and a publisher, 2 passwords, 4 calls nested 2 deep, 2 requests under way, 1 fault | client and server agree who is signed in; saved credentials open the account; profiles and genres are there; no registration is taken over |
| `desk` | a publisher and a reader, 2 books, 2 sales, 3 calls nested 2 deep, 1 fault | no title is lost; desk and feed show what the server has |
| `library` | 2 readers, 1 book to shelve and 1 to browse, 3 shelves, 3 commands nested 2 deep, 1 fault | library, hearts, cart and page agree with the server and with each other; no move loses a book |
| `shells` | per part 3 commands (search 4), nested 3 deep (lists 2), 1 fault, 1 change by others | lists, figures, reader, home page and results show what the server has |

Bounds. Connection ids are never reused (they are UUIDs), so their number bounds a
behaviour of `connections`: three are enough for one user on two connections and an admin
on a third. `MaxOrders` 2 is what a second purchase needs. In `catalog` everything is per
book, so one is enough, and a reader who both reviews and rates exercises both terms of a
summary; two stars tell sums apart. `MaxCalls`, `MaxDepth` and `MaxFaults` of the client
modules bound the commands started, the waits at a time and what is lost or given up.
Every hazard known of nested waits is of two commands (one reads, waits, writes; the other
writes meanwhile), which depth 2 holds; the third command is the one that brought about the
state, or the refresh after. Three shelves hold one seeded, one made and one duplicated. A
change by others is a block, a sale, a review or a discount of another client; one, at any
moment, is enough to make a copy old. In `accounts`, two requests under way hold one that was
given up and its retry, or those of two pages; four calls are a sign-up (two), a login and
one more; reader and publisher are the two users who overlap (the proof is about any
number). `MaxReactions`, `MaxSales`, `MaxShelves` and `MaxPage` cap counters no property compares
beyond that.

Deadlock is checked in the runs of `Connections`, `Checkout`, `Catalog` and `Accounts`. In the others a
client whose calls are used up and whose requests are answered has nothing left to do.

Fairness. Only liveness uses it. In `ClientLink`: timers fire, a loop told to quit returns,
posted callbacks run, the network delivers or fails, a stopped server is started again:
each is what Qt's event loop, TCP or an operator does, and nothing is asked of users. In
`Catalog`: a handler that is running goes on, and the 60 second timer of the server is
served again and again whatever else is (`SF` of the sweep, as it is enabled only between
handlers: the event loop comes back to it after any of them).

Many invariants have an exception, named by a history variable (`stale`, `torn`, `skewed`,
`off`, `crossed` and so on) that is set exactly where the code is known to lose agreement,
so that the property is about everything else; each is described at the property, and the
cases are listed below.

## Finding

`client_link_retry` (`KeepsTrying`): the comment at
`src/client/network/ClientNetworkManager.cpp:264-265` says of an attempt that
onReconnectTimeout begins that onError schedules another if it fails. onError does so only
while `m_connected` is set (`:241`), and onDisconnected has cleared it. In TLC's behaviour
a connection is made and lost with the server, the timer fires and is off, the attempt is
refused, the server comes back, and nothing but a new call of the user would connect again.

## Seen in the code

Met while modelling, and the reason for the exceptions of the properties.

Server:
- A user with two sessions vanishes from the map when one ends (`ClientConnection.cpp:66-67`).
- A crash between commit and clearing the cart lets books be bought twice
  (`CartRequestHandler.cpp:224-225`); a failing item or sale statement is committed over
  (`:291-293`); the first AddToCart of a new user is lost and answered with success.
- `handleApplyDiscount` deletes a static repository (`CartRequestHandler.cpp:369`).
- A promotion that ends between the sweep's two statements keeps its discount
  (`IDiscountRepository.cpp:92-97`; `ServerCore.cpp:290-292` speaks of a single UPDATE).
  Publishers' discounts write no row of Discounts, so they never expire.
- The owner's update of a book starts its sales counter, summary and discount again;
  `handleUpdateBook` always refuses an administrator (`PublisherRequestHandler.cpp:166-170`).
- Deleting a shelf, adding to it and removing from it ask for no ownership.
- Probing a taken username at the sign-up page always answers "available"; a new account
  is Active although `handleRegister` speaks of Pending; `resetPassword` ignores the status.
- `handleSaveFavoriteGenres` stores the genres in the row of the connection's user, whatever
  username the request carries: of two users of one client, the second's row gets them.
- A connection that is lost stays a participant of its study sessions.
- Seeding is skipped after a crash in the middle of the first seeding. The sample data has
  sales without orders and a notification of a sale that was not made.
- A published or updated book's discount may exceed its price: the payload's discountValue is
  stored as it is (`PublisherRequestHandler.cpp:669`) and `Book.cpp:94-98` does not clamp it.

Client:
- Nobody signs in again after a reconnect; genres chosen offline are never sent.
- A page blocks only its own submissions (`AuthViewModelBase.cpp:40`) and the links between
  the pages stay enabled (`RegisterPage.qml:416-419`, `LoginPage.qml:216-219`): of a login and
  a registration that overlap, the server's session is the one's it served last, the client's
  current user the one's whose wait returned last, and genres then go to the other's row.
- A title that is kept locally is never sent later, although `PublisherService.cpp:221-224`
  says that it syncs on the next connection.
- Adding to the wishlist shelf from the shelves page does not change the hearts, which
  `LibraryService.cpp:481-482` says it does.
- `SearchViewModel.h:10-15` lists filters by language and year; the search
  (`SearchViewModel.cpp:218-245`) never applies them.
- One handler per event command: `PublisherService` replaces `NotificationService`'s handler
  of EvtNotification and `BookService`'s of three others, `StudySessionViewModel` replaces
  `ReaderService`'s of EvtStudySync. Caches of services survive a logout.
- `createShelf` and `duplicateShelf` take the last shelf of a list sorted by name for the new
  one (`LibraryService.cpp:248`, `293-294`); a merge into an empty cache drops the purchases.
- A `setQuantity` that is given up half way loses the book; moving to the cart takes a book
  off the wishlist even when the cart refused it; `LibraryService` is not told of purchases.
- Replies to overlapping loads of the book page mix two books (`BookDetailViewModel.cpp:74-79`);
  overlapping openings in the reader mix a book and another's file; a file that arrives after
  its book was closed stays; a saved page can lie past the last when there is no PDF;
  `closeBook`'s save of the page is always refused; the restored page is not scrolled to.
- `updateBookInfo` of an administrator always fails; the user list is blank until the next
  refresh after a block; `kickClient` sends a connection id where a user id is expected; a
  read nested in a fetch of an eager list uses the old one.
- `updatePromotion` sends "code" where the server reads "bookId".
- A search asked for while another waits is dropped and its results are the old query's; a
  refresh of the home page in the middle of one is dropped; a reply in hand when an event
  clears the cache is stored after it.
- One's own note disappears while the room's notes are being fetched, and joining a second
  room inside the wait of a join mixes their notes (`StudySessionViewModel.cpp:186-187`,
  `352-353`).
- The legacy client's `SessionManager` locks a non-recursive mutex twice (not in use).

## Proofs

All theorems hold for every value of the constants that satisfies the named assumptions.

- `NetworkProofs`, the server's end of a connection: the inductive invariant `IInv` adds to
  the checked invariants what makes them inductive (unused connection ids carry no identity,
  every signed-in user has an account, nobody outside `shared` has two sessions) and is
  preserved action by action; the lemmas about `SetUserId` carry the argument. From it: type
  correctness, `RouteSound`, `AuthenticatedHasUser`, `SoleSessionReachable`,
  `BlockedSoleSessionTold`, `AdminsCanLogin`. `IdentityOnlyForActive` needs one fact more: no
  row is ever Pending, a status with which `handleLogin` would let a user in.
- `NetworkProofs`, the client's end: `LinkInv` gives every queue and the stack their elements,
  says that what is under way was started, and on a live connection exactly once, that
  handlers belong to calls that wait (`HandlersAreWaiting`), that no call waits twice and that
  a callback's posting, firing and running add up. From it `RepliesDelivered` and
  `AnswerUnderWay`; `RetryScheduled` is inductive as it stands.
- `CheckoutProofs`: type correctness, and `DuplicatesOnlyFromLeftovers` with or without
  failing statements, from an invariant that counts, for each book, the copies bought, the
  copy the running checkout may still write and the copy a full cart may still become.
- `CheckoutProofs`, second part, for `~ Faults`: the rows written so far by the running
  checkout are exactly those `pc` and `todo` say, they are only in `db` while the transaction
  is open, and on `disk` otherwise. From it: `ConfirmedPurchasesDurable`, and the refinement
  `PurchasesAreAtomic`: Init maps to Init, Commit to Purchase, UpdateBook to Rewrite, and
  everything else stutters. Third part: `SalesMatchOrders` and `NoticesBacked` compare
  counters with `SELECT COUNT(*)` over the rows of OrderItems. `CountInv` says that these rows
  are a finite set, that an open transaction has not touched them on disk, and that what
  publishers have been told and are still to be told is backed by them; a commit adds one row
  per book of the order (`NewRow`).
- `CatalogProofs`: `CatalogInv` is type correctness, `Unwritten` (nothing is written about a
  book that was never published) and `Promoted` (a running promotion has a book). `Kinds`
  reduces the twenty actions to sixteen shapes, `RowStep` says the seven things that can
  become of a row of Books, and each property of a row follows from those: type correctness,
  `ListedIffAvailable`; `StoredPathHasFile` with the strengthening that a path still to be
  written has its file; `SweptOnce`, from `SweptInv` (no promotion that was over when a sweep
  finished is running); `RatingsSummarised`, from `ToldStep` (what the
  tables say changes only with a recalculation to follow) and `DoubtStep` (only a
  recalculation settles a summary in doubt). `GenresKept` is not inductive: while genres are
  being inserted, those there and those left must together be what was asked for even when the
  former already are.
- `StudyRoomProofs`: `RoomInv` types every queue and stack over `Written`, the notes that have
  an author, so that no request, event, reply or panel carries a note before it is written;
  only `AddNote` makes that set grow. From it `PanelSound` (well-formed queues, no note twice
  on a panel) and `ClosedWhenEmpty`.
- `StudyRoomProofs`, second part, in the setting of the run `study_room` (readers wait for
  their calls, no request times out), for any readers, rooms and notes. A panel agrees with
  its room only when nothing is under way, so the invariant `ViewInv` says for every reader
  what each queue still has to tell: at most one request or reply of his call is under way; he
  is where the server has him unless a join or leave of his is on its way; the last news of
  participants in his queues is true, or what he shows is; his panel and the notes brought by
  what is queued are the room's notes but for those his own request will add; a reply is true
  but for what follows it in the queue, which is what makes it harmless that replies overtake
  posted events. Each step is proved once for the reader who acts and once for all others.
  From it `PanelComplete` and `ParticipantsAgree`.
- `AccountsProofs`: `AccountsInv` says what a wait may find. `Linked`: a request that is
  waited for names the place of one call of the stack, which asked for the same, has no
  answer yet and is named by no other. `OneLogin`: at most one login waits.
  `CallTrue`: what the answer in hand says of the account is still so, for a
  login unless its password has changed meanwhile (`spoiled`). `SessionKnown`: while not
  `unsure`, at most one sign-in or sign-out has its answer in hand, and the connection belongs
  to whom that one says, or to the client's current user if there is none. And no publisher
  is without profile while the second INSERT is not due. From it `AccountsComplete`,
  `SessionAgrees`, `SavedOpensAccount` and the action property `RegistrationKept`, for any
  users and passwords and calls nested to any depth. The attempt to prove it for more than
  one reader showed that genres are stored for the user of the connection, whatever username
  the request carries; the model was corrected.
- `ShellsProofs`: `WaitsInv` is how requests wait, of every part alike: each request on its
  way that is waited for names the place of one entry of the stack, which asked for the same,
  holds no reply yet and is named by no other. From it, lemmas say once what becomes of stack
  and wire when a request is sent, served, given up or returns (`Filled`: a reply is only ever
  put into an entry without one that asked for it), and each part adds what its entries may
  hold. Search: at most one search waits, for the words of the criteria unless another is
  scheduled or was dropped (`SearchPage`). Monitor: a reply not marked old is of the time
  after the last refresh, and a panel counts as valid only when it is fresh or still being
  read (`MonitorKept`). Reader: file, view and page agree except while a download waits, when
  the file is not yet known (`ReaderKept`). Home: at most one entry of the stack belongs to a
  wave, and `phase` is its wave (`Waves`); every reply in hand, every cache and every list but
  those the second wave is about to empty is of the time since the client was last told, or is
  marked (`HomeTrue`, `CachesTrue`, `ListsTrue`). From these `ResultsMatch`, `FiguresFresh`,
  `ReaderAgrees` and `HomeAgrees`, for any bounds, books, queries and panels. Moderation: the
  administrator's lists may be off only while something waits that will set them right, so
  `ModeratorKept` says for each list what that may be: a fetch or a change of users, a fetch
  of books, a moderated book whose reply is in hand (`Unsettled`), a book about to be removed
  (`Doubted`: what was forgotten before the request stays so, or is being fetched). It needs
  that the server serves requests in the order they were sent, so that nothing above an entry
  without a reply has one (`InTurn`), that what has been collected of the reviews is true but
  for a book yet to be forgotten (`CollectedTrue`), and that a reply not marked old is what
  the server has (`ReplyTrue`). From it `ListsAgree`, for every finite set of books. The
  reader's assumption is that a document which `QtPdf` reports ready has a page:
  `PdfReaderPage.qml` hands its `pageCount` to the reader as soon as the status is Ready.
- `DeskProofs`, for any publishers, books, users and bounds. `WaitsInv` says how calls wait: a
  request or reply under way belongs to one entry of the stack, which asked for it and has
  nothing yet. `KeptInv` types what is kept. `TitlesInv` is an inequality: the
  titles the client has been told of and those in answers in hand it has not been told of
  (`Untold`) never exceed the server's and those kept locally. `FiguresInv` (`FiguresHold`)
  says that the figures kept are the server's, or one title short while exactly one such
  answer is in hand, or known to be off (`skewed`, an event on its way, an old answer, more
  such answers than one); fetched figures that are in hand are the server's, old, or awaiting
  the same. `PromotionsInv`: a promotion
  that is listed, or whose reply is in hand, is backed by the server's. `FeedInv` says where
  each notification is (`Shown`): in the list, pushed and on its way, or left to a fetch that
  waits, unless something has been lost; and what is shown as read is read at the server or
  is being marked with all others. The newest ones the server returns are given by their rank
  among the user's (`Newest`, lemmas `Ranked` and `LeastOf`), as an order cannot be sorted by
  recursion in a module with proofs. From it `NoTitleLost`, `DeskAgrees` and `FeedAgrees`.
- `ShopProofs`, for any readers, books, shelves and bounds, covers `Library` and `Shop`
  together. `ShopInv` has a part for each thing a step can spoil. `WaitsInv`: a request that
  is waited for belongs to one entry of the stack, which asked for it and has no reply yet; a
  reply in hand is one its command may be told and is what the server has now, or is marked
  old. `ShelvesInv` and `BasketInv`: a cache is right, named as off, or a command that waits
  holds the reply that will replace it. `HeartsInv`: the hearts are right, or a toggle that
  has its reply makes them so; whether it does is decided by the list it was told (`Lands`),
  as the request may have reached another shelf of that name or none. `PageInv`: one load at a
  time, of the book the page is of, and a review under way is one its reader meant. `KeptInv`:
  a book a reader had is theirs still or a waiting command will put it down; this is not
  inductive without `GivenUpInv` (a request that takes a book and was given up is followed by
  the one that puts it down, on the same wire) and `PastCartInv` (what is to be taken off the
  wishlist has reached the cart). The three steps every command is made of, begins, is served,
  goes on or ends, are proved once (`SendKeeps`, `Serving`, `Went`), with what each does to
  each part; a handler or a command adds only what it changes itself. That `findByUser` lists
  every shelf of a user once, whatever their order and names, is lemma `PlacedIs`. From it
  `LibraryShown`, `HeartsAgree`, `MovesLoseNothing`, `CartsAgree` and `PageAgrees`. The
  attempt to prove them showed where the exceptions had been drawn wrong: a request of a move
  to the cart that was given up takes a book off like any other, a book taken out of the cart
  while it moves there is what counts as torn, and a heart is astray only when the list it was
  told differs from the one it changes. It also showed a `CASE` of the model whose guards
  overlapped.

Every invariant the passing runs check is proved, those of `study_room` and `checkout` in the
setting of their runs as said above. Only model-checked: liveness (`CallsReturn`,
`CallbackRuns`, `EndedPromotionFreesBook`), as fairness is outside the prover's reach.

## Plan

Lost connections in `StudyRoom`, by composition with `Connections`; chat and page sync.

## Not modelled

- Database start-up (schema, migration, seeding): runs once, before anything else.
- The legacy client (`src/client/controllers`, `session`): compiled, not run.
- Settings, profile, pictures, start-up and views of the QML client: fields read and written
  in one request each, wiring and layout; in QML, only the commands views issue and the
  bindings that start requests.
- Domain classes, validation, hashing, logging, serialisation: data and conversions. The
  thread pool has no user. Installers, scripts, build files.
- The signal handler that stops the server, and the re-entrancy of `QTcpSocket::flush`
  during a broadcast.
- Inside modelled parts. Study room: chat, pages, invitations, lost connections. Desk: books
  cache, `updatePromotion`, profile, upload, edits kept only locally, ratings by book, the
  service's own list of notifications. Library: what the requests of `SetShelfLook` change
  (colour, favourite, private), downloads, `reorderShelves` (no view calls it), the books of
  a shelf, and the merge of `savedBookIds` into the saved books (`LibraryService.cpp:110`,
  `133`). Book page: related books, rating bars, drafts, the client's `deleteReview` and
  replies (`Catalog` has the server's side). Reader: bookmarks, zoom, page text.
  Search: suggestions, sorting. Home: two lists stand for the second wave's eight, recently
  viewed is left out, as is the clearing of the caches by `toggleWishlist` and
  `submitReview`, and the user is taken to have purchases and a wishlist. Moderation:
  flagged reviews and reports, which are stubs; `ServerService::addLog` (`221-232`), which no
  view calls. Events no code sends.
