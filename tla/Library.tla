------------------------------ MODULE Library ------------------------------
(***************************************************************************)
(* A reader's shelves at the server and the two copies one client keeps of *)
(* them: LibraryService's library and the wishlist of BookService (the     *)
(* hearts on the book cards). A command that takes several requests waits  *)
(* for each in an event loop of its own, in which the user may start the   *)
(* next command; the command that came last returns first.                 *)
(***************************************************************************)
EXTENDS Integers, Sequences, FiniteSets, SequencesExt

CONSTANTS
  Users, Nobody, Books,
  Shelved,         \* a book that starts on the user's wishlist
  Wishlist,        \* the name; names are numbers, in their order
  NewNames,        \* names the user gives
  MaxShelves,      \* bound: shelves ever made by the user
  MaxCalls,        \* bound: commands the user starts
  MaxDepth,        \* bound: commands that wait at a time
  MaxFaults        \* bound: requests timed out and connections lost

ASSUME LibraryAssumption ==
  /\ Nobody \notin Users /\ IsFiniteSet(Books) /\ Shelved \in Books
  /\ Wishlist \in Nat \ {0, 1} /\ NewNames \subseteq Nat
  /\ MaxShelves \in Nat /\ MaxCalls \in Nat /\ MaxDepth \in Nat \ {0} /\ MaxFaults \in Nat

VARIABLES
  shelves,     \* Shelves and ShelfBooks; a row that is gone has live = FALSE
  owned,       \* books of each user's completed Orders
  session,     \* user of the connection at the server
  who,         \* user signed in at the client
  lib,         \* LibraryService::m_libraryData
  hearts,      \* BookService::m_wishlist
  stack,       \* commands that wait, innermost last
  wire,        \* requests on their way
  calls, faults,
  skewed,      \* history: lib's shelves are known to be off, see ShelvesShown
  behind,      \* history: lib's purchases are known to be off, see PurchasesShown
  drifted,     \* history: hearts is known to be off, see HeartsAgree
  kept,        \* history: what each user shelved and did not take off
  torn         \* history: books whose move failed half way

data == <<shelves, owned>>
local == <<lib, hearts>>
bounds == <<calls, faults>>
history == <<skewed, behind, drifted, kept, torn>>
vars == <<data, session, who, local, stack, wire, bounds, history>>

-----------------------------------------------------------------------------
None == [is |-> "none"]
Failed == [is |-> "no"]
Empty == [any |-> FALSE, owned |-> {}, shelves |-> <<>>]
Shelf(u, n, sort) == [owner |-> u, name |-> n, sort |-> sort, books |-> {}, live |-> TRUE]
CopyName(n) == n + 1    \* "X (copy)" comes right after "X"

\* findByUser: ORDER BY sortOrder, name.
Precedes(all, s, t) ==
  \/ all[s].sort < all[t].sort
  \/ all[s].sort = all[t].sort
     /\ (all[s].name < all[t].name \/ (all[s].name = all[t].name /\ s < t))

Mine(all, u) == {s \in DOMAIN all : all[s].live /\ all[s].owner = u}

Placed(all, mine, i) ==
  CHOOSE s \in mine : Cardinality({t \in mine : Precedes(all, t, s)}) = i - 1

ListedShelf(all, s) ==
  [id |-> s, name |-> all[s].name, sort |-> all[s].sort, books |-> all[s].books]

Listing(all, u) ==
  LET mine == Mine(all, u)
  IN [i \in 1 .. Cardinality(mine) |-> ListedShelf(all, Placed(all, mine, i))]

\* The first shelf of that name in a list: its place, or 0.
WishPlace(list) == SelectInSeq(list, LAMBDA s : s.name = Wishlist)
WishBooks(list) == IF WishPlace(list) = 0 THEN {} ELSE list[WishPlace(list)].books
Wished(all) == IF who = Nobody THEN {} ELSE WishBooks(Listing(all, who))
OnShelves(all, u) == UNION {all[s].books : s \in Mine(all, u)}

\* ShelfRepository: the rows of a shelf's books go with it.
RemoveShelf(all, s) == [all EXCEPT ![s].live = FALSE, ![s].books = {}]
AddBook(all, s, b) == [all EXCEPT ![s].books = @ \cup {b}]
RemoveBook(all, s, b) == [all EXCEPT ![s].books = @ \ {b}]

Init ==
  /\ \E u \in Users :
       /\ shelves = <<Shelf(u, Wishlist - 2, 0),
                      [Shelf(u, Wishlist, 1) EXCEPT !.books = {Shelved}]>>
       /\ kept = [v \in Users |-> IF v = u THEN {Shelved} ELSE {}]
  /\ owned = [u \in Users |-> {}] /\ session = Nobody /\ who = Nobody
  /\ lib = Empty /\ hearts = {} /\ stack = <<>> /\ wire = <<>>
  /\ calls = 0 /\ faults = 0
  /\ skewed = FALSE /\ behind = FALSE /\ drifted = FALSE /\ torn = {}

-----------------------------------------------------------------------------
(* Commands that wait. A frame holds the request it waits for, those it is  *)
(* still to send, the reply when it has come, and whether the server's      *)
(* shelves, purchases or cart have changed since (old).                     *)

Innermost == Last(stack)
Dispatching == stack # <<>> => Innermost.got = None
Returned(op) == stack # <<>> /\ Innermost.op = op /\ Innermost.got # None
Worked == Innermost.got.is = "ok"

Aged(s) == [i \in DOMAIN s |-> IF s[i].got # None THEN [s[i] EXCEPT !.old = TRUE]
                               ELSE s[i]]

\* A command of the user begins: its first request and those that follow.
Begin(op, cmd, more) ==
  /\ who # Nobody /\ Dispatching /\ Len(stack) < MaxDepth
  /\ calls < MaxCalls /\ calls' = calls + 1
  /\ stack' = Append(stack, [op |-> op, cmd |-> cmd, more |-> more, got |-> None,
                             old |-> FALSE])
  /\ wire' = Append(wire, [op |-> op, cmd |-> cmd, depth |-> Len(stack) + 1])
  /\ UNCHANGED <<data, session, who, faults, skewed, behind, kept, torn>>

\* It goes on with its next request.
Resume(f) ==
  /\ stack' = Append(Front(stack), f)
  /\ wire' = Append(wire, [op |-> f.op, cmd |-> f.cmd, depth |-> Len(stack)])

Ends == stack' = Front(stack) /\ UNCHANGED wire

NextRequest(more) ==
  IF more = <<>> THEN Ends
  ELSE Resume([Innermost EXCEPT !.cmd = Head(more), !.more = Tail(more), !.got = None,
                                !.old = FALSE])

AtClient == UNCHANGED <<data, session, who, bounds, kept>>

\* The wait for a reply ends after a while; the request is served yet.
TimesOut(i) ==
  /\ stack[i].got = None /\ faults < MaxFaults /\ faults' = faults + 1
  /\ stack' = [stack EXCEPT ![i].got = Failed]
  /\ wire' = [w \in DOMAIN wire |->
                IF wire[w].depth = i THEN [wire[w] EXCEPT !.depth = 0] ELSE wire[w]]
  /\ UNCHANGED <<data, session, who, local, calls, history>>

\* The connection is lost; the next one has no session, and the server refuses
\* what it is sent.
Lose ==
  /\ session # Nobody /\ faults < MaxFaults /\ faults' = faults + 1
  /\ session' = Nobody /\ wire' = <<>>
  /\ stack' = [i \in DOMAIN stack |-> IF stack[i].got = None
                                      THEN [stack[i] EXCEPT !.got = Failed] ELSE stack[i]]
  /\ UNCHANGED <<data, who, local, calls, history>>

-----------------------------------------------------------------------------
(* The server: LibraryRequestHandler on the Shelves tables.                 *)

Handle(do) == wire # <<>> /\ Head(wire).cmd.do = do
Cmd == Head(wire).cmd
Late == Head(wire).depth = 0

Reply(r, s) ==
  /\ wire' = Tail(wire)
  /\ stack' = IF Late THEN s ELSE [s EXCEPT ![Head(wire).depth].got = r]

\* What a request makes of the shelves. LibraryService learns of it from the
\* reply, if it asked and still waits; BookService, if it asked.
Answer(all, got) ==
  LET changed == all # shelves
  IN /\ shelves' = all
     /\ Reply(got, IF changed THEN Aged(stack) ELSE stack)
     /\ skewed' = (skewed \/ (changed /\ (Late \/ Head(wire).op \in {"heart", "hearts"})))
     /\ drifted' = (drifted \/ (Wished(all) # Wished(shelves)
                                /\ (Late \/ Head(wire).op # "heart")))

Refuse == Answer(shelves, Failed) /\ UNCHANGED kept
ServerDone == UNCHANGED <<owned, session, who, local, bounds, behind, torn>>

Listed(all, new) ==
  [is |-> "ok", shelves |-> Listing(all, session), owned |-> owned[session], new |-> new]

Serve(all) == Answer(all, Listed(all, 0))

\* A user who has no shelf called Wishlist gets one.
HandleGetLibrary ==
  /\ Handle("get") /\ ServerDone
  /\ IF session = Nobody THEN Refuse
     ELSE /\ Serve(IF WishPlace(Listing(shelves, session)) # 0 THEN shelves
                   ELSE Append(shelves, Shelf(session, Wishlist, 0)))
          /\ UNCHANGED kept

HandleCreateShelf ==
  /\ Handle("create") /\ ServerDone
  /\ IF session = Nobody THEN Refuse
     ELSE LET all == Append(shelves, Shelf(session, Cmd.name, 0))
          IN Answer(all, Listed(all, Len(all))) /\ UNCHANGED kept

\* handleRenameShelf and handleUpdateShelf: the owner only.
Rewrite(do, as(_)) ==
  /\ Handle(do) /\ ServerDone
  /\ IF session = Nobody \/ ~ shelves[Cmd.shelf].live \/ shelves[Cmd.shelf].owner # session
     THEN Refuse
     ELSE Serve([shelves EXCEPT ![Cmd.shelf] = as(@)]) /\ UNCHANGED kept

HandleRenameShelf == Rewrite("rename", LAMBDA s : [s EXCEPT !.name = Cmd.name])
HandleUpdateShelf ==
  \/ Rewrite("update", LAMBDA s : [s EXCEPT !.sort = Cmd.sort])
  \/ Rewrite("look", LAMBDA s : s)

\* Any shelf, whoever's it is and whether or not it exists.
HandleDeleteShelf ==
  /\ Handle("delete") /\ ServerDone
  /\ IF session = Nobody THEN Refuse
     ELSE LET all == RemoveShelf(shelves, Cmd.shelf)
          IN /\ Serve(all)
             /\ kept' = [u \in Users |-> kept[u] \cap OnShelves(all, u)]

\* The foreign key refuses a shelf that is gone.
HandleAddBookToShelf ==
  /\ Handle("add") /\ ServerDone
  /\ IF session = Nobody \/ ~ shelves[Cmd.shelf].live THEN Refuse
     ELSE /\ Serve(AddBook(shelves, Cmd.shelf, Cmd.book))
          /\ kept' = [kept EXCEPT ![shelves[Cmd.shelf].owner] = @ \cup {Cmd.book}]

\* A removal succeeds whatever there is to remove. One that is half a move, to
\* another shelf or to the user's cart, is not meant to lose the book.
HandleRemoveBookFromShelf ==
  /\ Handle("drop") /\ ServerDone
  /\ IF session = Nobody THEN Refuse
     ELSE LET all == RemoveBook(shelves, Cmd.shelf, Cmd.book)
          IN /\ Serve(all)
             /\ kept' = IF Head(wire).op = "move"
                           \/ (Head(wire).op = "toCart" /\ ~ Late /\ shelves[Cmd.shelf].owner = session)
                        THEN kept
                        ELSE [u \in Users |-> kept[u] \cap OnShelves(all, u)]

-----------------------------------------------------------------------------
(* LibraryService. Reads go by the cached library; one that finds it empty  *)
(* fetches it first (ReadLibrary), which is a step of its own here.         *)

ReadLibrary ==
  /\ ~ lib.any /\ Begin("read", [do |-> "get"], <<>>) /\ UNCHANGED <<local, drifted>>

Refresh ==
  /\ Begin("read", [do |-> "get"], <<>>) /\ lib' = Empty /\ UNCHANGED <<hearts, drifted>>

\* refreshFromServer
ReadReturns ==
  /\ Returned("read") /\ Ends /\ AtClient
  /\ IF Worked
     THEN /\ lib' = [any |-> TRUE, owned |-> Innermost.got.owned,
                     shelves |-> Innermost.got.shelves]
          /\ skewed' = Innermost.old /\ behind' = Innermost.old
     ELSE UNCHANGED <<lib, skewed, behind>>
  /\ UNCHANGED <<hearts, drifted, torn>>

Ask(op, cmd, more) == Begin(op, cmd, more) /\ UNCHANGED <<local, drifted>>

CachedIds == {lib.shelves[i].id : i \in DOMAIN lib.shelves}

CreateShelf(n) ==
  Len(shelves) < MaxShelves /\ Ask("shelves", [do |-> "create", name |-> n], <<>>)
RenameShelf(s, n) == Ask("shelves", [do |-> "rename", shelf |-> s, name |-> n], <<>>)
DeleteShelf(s) == Ask("shelves", [do |-> "delete", shelf |-> s], <<>>)
AddToShelf(s, b) == Ask("shelves", [do |-> "add", shelf |-> s, book |-> b], <<>>)
RemoveFromShelf(s, b) == Ask("shelves", [do |-> "drop", shelf |-> s, book |-> b], <<>>)

\* setShelfColor, setShelfFavorite, setShelfPrivate: what they change is not kept
\* here, the list that comes back is.
SetShelfLook(s) == Ask("shelves", [do |-> "look", shelf |-> s], <<>>)

SetSortOrder(s, sort) == Ask("shelves", [do |-> "update", shelf |-> s, sort |-> sort], <<>>)
MoveShelfUp(i) ==
  i > 1 /\ SetSortOrder(lib.shelves[i].id, lib.shelves[i - 1].sort - 1)
MoveShelfDown(i) ==
  i < Len(lib.shelves) /\ SetSortOrder(lib.shelves[i].id, lib.shelves[i + 1].sort + 1)

\* moveBookBetweenShelves: two requests, the second whatever came of the first.
MoveBook(from, to, b) ==
  /\ from # to
  /\ Ask("move", [do |-> "drop", shelf |-> from, book |-> b],
         <<[do |-> "add", shelf |-> to, book |-> b]>>)

\* Only the shelves of the cached library are replaced.
Merge ==
  IF Worked
  THEN /\ lib' = [lib EXCEPT !.any = TRUE, !.shelves = Innermost.got.shelves]
       /\ skewed' = Innermost.old
       /\ behind' = (behind \/ ~ lib.any)
  ELSE UNCHANGED <<lib, skewed, behind>>

ReplaceLibrary ==
  IF Worked
  THEN /\ lib' = [any |-> TRUE, owned |-> {}, shelves |-> Innermost.got.shelves]
       /\ skewed' = Innermost.old
       /\ behind' = (behind \/ ~ lib.any)
  ELSE UNCHANGED <<lib, skewed, behind>>

ShelvesReturnReplacing ==
  /\ Returned("shelves") /\ AtClient
  /\ ReplaceLibrary /\ NextRequest(<<>>)
  /\ UNCHANGED <<hearts, drifted, torn>>

ShelvesReturn ==
  /\ Returned("shelves") /\ AtClient
  /\ Merge /\ NextRequest(<<>>)
  /\ UNCHANGED <<hearts, drifted, torn>>

MoveReturnsEarly ==
  /\ Returned("move") /\ AtClient
  /\ Merge /\ NextRequest(IF Worked THEN Innermost.more ELSE <<>>)
  /\ torn' = IF Innermost.more = <<>> /\ ~ Worked THEN torn \cup {Innermost.cmd.book}
             ELSE torn
  /\ UNCHANGED <<hearts, drifted>>

MoveReturns ==
  /\ Returned("move") /\ AtClient
  /\ Merge /\ NextRequest(Innermost.more)
  /\ torn' = IF Innermost.more = <<>> /\ ~ Worked THEN torn \cup {Innermost.cmd.book}
             ELSE torn
  /\ UNCHANGED <<hearts, drifted>>

\* duplicateShelf: the cached books go, one request each, to the shelf that
\* createShelf returns, which is the last of the list.
DuplicateShelf(i) ==
  /\ Len(shelves) < MaxShelves
  /\ Ask("copy", [do |-> "create", name |-> CopyName(lib.shelves[i].name)],
         SetToSeq(lib.shelves[i].books))

AddEach(books, s) == [i \in DOMAIN books |-> [do |-> "add", shelf |-> s, book |-> books[i]]]

DuplicateReturns ==
  /\ Returned("copy") /\ AtClient /\ Merge
  /\ IF Innermost.cmd.do = "create"
     THEN NextRequest(IF Worked
                      THEN AddEach(Innermost.more, Last(Innermost.got.shelves).id) ELSE <<>>)
     ELSE NextRequest(Innermost.more)
  /\ UNCHANGED <<hearts, drifted, torn>>

\* toggleSaved goes by the cached library, removeFromWishlist always removes.
InWish(do, b) ==
  /\ WishPlace(lib.shelves) # 0
  /\ Ask("wish", [do |-> do, shelf |-> lib.shelves[WishPlace(lib.shelves)].id, book |-> b],
         <<>>)

ToggleSaved(b) == InWish(IF b \in WishBooks(lib.shelves) THEN "drop" ELSE "add", b)
RemoveFromWishlist(b) == InWish("drop", b)

WishReturns ==
  /\ Returned("wish") /\ Ends /\ AtClient
  /\ lib' = IF Worked THEN Empty ELSE lib
  /\ UNCHANGED <<hearts, skewed, behind, drifted, torn>>

-----------------------------------------------------------------------------
(* BookService: an empty list of hearts is one that is yet to be fetched.   *)

EnsureWishlistCache ==
  /\ hearts = {} /\ Begin("hearts", [do |-> "get"], <<>>) /\ UNCHANGED <<local, drifted>>

\* wishlist(): fetched anew.
ShowWishlist ==
  /\ Begin("hearts", [do |-> "get"], <<>>) /\ hearts' = {} /\ UNCHANGED <<lib, drifted>>

\* The reply is appended to what is there.
HeartsReturn ==
  /\ Returned("hearts") /\ Ends /\ AtClient
  /\ IF Worked
     THEN /\ hearts' = hearts \cup WishBooks(Innermost.got.shelves)
          /\ drifted' = (Innermost.old \/ (hearts # {} /\ drifted))
     ELSE UNCHANGED <<hearts, drifted>>
  /\ UNCHANGED <<lib, skewed, behind, torn>>

\* toggleWishlist asks for the library first and goes by the reply.
ToggleWishlist(b) == Ask("heart", [do |-> "get", book |-> b], <<>>)

Flip(set, b) == IF b \in set THEN set \ {b} ELSE set \cup {b}

\* Without a library, or a shelf of that name, the heart flips here only.
HeartGoes ==
  /\ Returned("heart") /\ Innermost.cmd.do = "get" /\ AtClient
  /\ LET b == Innermost.cmd.book
         list == Innermost.got.shelves
     IN IF Worked /\ WishPlace(list) # 0
        THEN /\ Resume([Innermost EXCEPT
                          !.cmd = [do |-> IF b \in WishBooks(list) THEN "drop" ELSE "add",
                                   shelf |-> list[WishPlace(list)].id, book |-> b],
                          !.got = None, !.old = FALSE])
             /\ UNCHANGED <<hearts, drifted>>
        ELSE Ends /\ hearts' = Flip(hearts, b) /\ drifted' = TRUE
  /\ UNCHANGED <<lib, skewed, behind, torn>>

\* The heart that changes is off if the list changed since the reply or has not
\* come at all, or if the request did not reach the wishlist: it was renamed, or
\* there is another of that name now.
HeartAstray ==
  LET now == WishBooks(Innermost.got.shelves)
      b == Innermost.cmd.book
  IN \/ Innermost.old
     \/ hearts = {} /\ now \ {b} # {}
     \/ (b \in now) # (Innermost.cmd.do = "add")

HeartReturnsRegardless ==
  /\ Returned("heart") /\ Innermost.cmd.do # "get" /\ Ends /\ AtClient
  /\ hearts' = IF Innermost.cmd.do = "drop" THEN hearts \ {Innermost.cmd.book}
               ELSE hearts \cup {Innermost.cmd.book}
  /\ drifted' = (drifted \/ (Worked /\ HeartAstray))
  /\ UNCHANGED <<lib, skewed, behind, torn>>

HeartReturns ==
  /\ Returned("heart") /\ Innermost.cmd.do # "get" /\ Ends /\ AtClient
  /\ IF Worked
     THEN /\ hearts' = IF Innermost.cmd.do = "drop" THEN hearts \ {Innermost.cmd.book}
                       ELSE hearts \cup {Innermost.cmd.book}
          /\ drifted' = (drifted \/ HeartAstray)
     ELSE UNCHANGED <<hearts, drifted>>
  /\ UNCHANGED <<lib, skewed, behind, torn>>

-----------------------------------------------------------------------------
(* Users who take turns at the client.                                      *)

AtRest == stack = <<>> /\ wire = <<>>

SignOut ==
  /\ AtRest /\ who # Nobody
  /\ session' = Nobody /\ who' = Nobody
  /\ UNCHANGED <<data, local, stack, wire, bounds, history>>

\* What the services keep survives the user.
SignIn(u) ==
  /\ AtRest /\ who = Nobody
  /\ session' = u /\ who' = u
  /\ skewed' = TRUE /\ behind' = TRUE /\ drifted' = TRUE
  /\ UNCHANGED <<data, local, stack, wire, bounds, kept, torn>>

-----------------------------------------------------------------------------
LibraryService ==
  \/ ReadLibrary \/ Refresh \/ ReadReturns \/ ShelvesReturn \/ MoveReturns
  \/ DuplicateReturns \/ WishReturns
  \/ \E n \in NewNames : CreateShelf(n) \/ \E s \in CachedIds : RenameShelf(s, n)
  \/ \E i \in DOMAIN lib.shelves : MoveShelfUp(i) \/ MoveShelfDown(i) \/ DuplicateShelf(i)
  \/ \E s \in CachedIds : DeleteShelf(s) \/ SetShelfLook(s)
  \/ \E s \in CachedIds, b \in Books :
       AddToShelf(s, b) \/ RemoveFromShelf(s, b) \/ \E t \in CachedIds : MoveBook(s, t, b)
  \/ \E b \in Books : ToggleSaved(b) \/ RemoveFromWishlist(b)

BookService ==
  \/ EnsureWishlistCache \/ ShowWishlist \/ HeartsReturn \/ HeartGoes \/ HeartReturns
  \/ \E b \in Books : ToggleWishlist(b)

Server ==
  \/ HandleGetLibrary \/ HandleCreateShelf \/ HandleRenameShelf \/ HandleUpdateShelf
  \/ HandleDeleteShelf \/ HandleAddBookToShelf \/ HandleRemoveBookFromShelf

Next ==
  \/ LibraryService \/ BookService \/ Server
  \/ \E i \in DOMAIN stack : TimesOut(i)
  \/ Lose \/ SignOut \/ \E u \in Users : SignIn(u)

Spec == Init /\ [][Next]_vars

-----------------------------------------------------------------------------
TypeOK ==
  /\ shelves \in Seq([owner : Users, name : Nat, sort : Int, books : SUBSET Books,
                      live : BOOLEAN])
  /\ owned \in [Users -> SUBSET Books] /\ session \in {who, Nobody}
  /\ who \in Users \cup {Nobody}
  /\ lib.owned \subseteq Books /\ (~ lib.any => lib = Empty)
  /\ CachedIds \subseteq DOMAIN shelves
  /\ hearts \subseteq Books /\ Len(stack) <= MaxDepth
  /\ \A w \in DOMAIN wire : wire[w].depth \in 0 .. Len(stack)
  /\ torn \subseteq Books

\* Once nothing is under way, the shelves on the page are the user's shelves at
\* the server, in their order, unless they were another user's, the hearts or
\* a request given up changed the server's, or an older list was merged last.
ShelvesShown == AtRest /\ lib.any /\ who # Nobody => skewed \/ lib.shelves = Listing(shelves, who)

\* The page shows every book the user bought, unless it was bought since the
\* library was fetched or the cache was empty when shelves were merged into it.
PurchasesShown == AtRest /\ lib.any /\ who # Nobody => behind \/ lib.owned = owned[who]

\* The hearts are the wishlist at the server, through toggles that overlap, are
\* refused or given up, unless the wishlist was changed from its own page or by
\* a request given up, or a heart flipped on its own or before the list came.
HeartsAgree == AtRest /\ hearts # {} /\ who # Nobody => drifted \/ hearts = Wished(shelves)
=============================================================================
