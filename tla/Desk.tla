-------------------------------- MODULE Desk --------------------------------
(***************************************************************************)
(* What a client keeps of the publisher's books and of the notifications:  *)
(* PublisherService, NotificationService and the server's handlers behind  *)
(* them. A call waits in an event loop of its own, so events and further   *)
(* calls run meanwhile, and the call that came last returns first.         *)
(***************************************************************************)
EXTENDS Integers, Sequences, FiniteSets, SequencesExt

CONSTANTS
  publisher, reader,   \* the users; the reader's genre is that of every book
  Nobody,
  MaxBooks,            \* bound: books
  MaxSales,            \* bound: sales to other users
  MaxCalls,            \* bound: calls the user starts
  MaxDepth,            \* bound: calls that wait at a time
  MaxFaults            \* bound: calls timed out and connections lost

ASSUME DeskAssumption ==
  /\ publisher # reader /\ Nobody \notin {publisher, reader}
  /\ MaxBooks \in Nat \ {0} /\ MaxSales \in Nat /\ MaxCalls \in Nat
  /\ MaxDepth \in Nat \ {0} /\ MaxFaults \in Nat

VARIABLES
  stock,       \* Books of the publisher: on sale or not, discounted or not
  sold,        \* their sales
  rows,        \* Notifications: for whom and read or not
  session,     \* user of the connection at the server
  who,         \* user signed in at the client
  desk,        \* PublisherService has been made (PublisherShell was loaded)
  local,       \* m_localBooksCache: how many entries
  analytics,   \* m_analyticsCache
  promos,      \* m_promotionsCache: books
  feed,        \* NotificationService::m_cache, newest first
  stack,       \* calls that wait, innermost last
  wire,        \* requests on their way, with the depth of their call
  events,      \* pushed events the client has not run
  calls, sales, faults,
  told,        \* history: additions the page was told of
  skewed,      \* history: analytics is known to be off, see DeskFresh
  gaps,        \* history: feed is known to be incomplete, see FeedShowsAll
  swept,       \* history: notifications a "mark all" took along, see ReadAgrees
  undone       \* history: listed promotions the server has cleared since

server == <<stock, sold, rows, session>>
bounds == <<calls, sales, faults>>
history == <<told, skewed, gaps, swept, undone>>
vars == <<server, who, desk, local, analytics, promos, feed, stack, wire, events,
          bounds, history>>

-----------------------------------------------------------------------------
Users == {publisher, reader}
Nothing == [books |-> 0]
None == [is |-> "none"]
Failed == [is |-> "no"]
Ok(x) == [is |-> "ok", data |-> x]

\* publisherStats: every book of the publisher counts, on sale or not.
Stats == [books |-> Len(stock), sold |-> sold]

RowsOf(u) == {n \in DOMAIN rows : rows[n].to = u}

\* notificationToJson, handleGetNotifications: newest first.
Copy(n) == [id |-> n, read |-> rows[n].read]
Newest(u) ==
  LET mine == RowsOf(u)
      Newer(n) == {m \in mine : m > n}
  IN [i \in 1 .. Cardinality(mine) |->
        Copy(CHOOSE n \in mine : Cardinality(Newer(n)) = i - 1)]

Ids(f) == {f[i].id : i \in DOMAIN f}
AtRest == stack = <<>> /\ wire = <<>> /\ events = <<>>

\* Each command has one handler: once PublisherService is made,
\* NotificationService no longer hears of notifications.
Hears == IF desk THEN "desk" ELSE "feed"

Init ==
  /\ stock = <<[on |-> TRUE, off |-> FALSE]>> /\ sold = 0 /\ rows = <<>>
  /\ session = Nobody /\ who = Nobody /\ desk = FALSE /\ local = 0
  /\ analytics = Nothing /\ promos = {} /\ feed = <<>>
  /\ stack = <<>> /\ wire = <<>> /\ events = <<>>
  /\ calls = 0 /\ sales = 0 /\ faults = 0
  /\ told = 0 /\ skewed = FALSE /\ gaps = FALSE /\ swept = {} /\ undone = {}

-----------------------------------------------------------------------------
(* Waiting calls. A reply that has come may have to wait for the calls      *)
(* inside; it is marked old when what it tells of has moved on meanwhile.   *)

Aged(s) == [i \in DOMAIN s |-> IF s[i].got # None THEN [s[i] EXCEPT !.old = TRUE]
                               ELSE s[i]]

Innermost == Last(stack)

\* Events and the user's next call run while the innermost call waits: once its
\* reply has come, its loop ends before anything else is dispatched.
Dispatching == stack # <<>> => Innermost.got = None

\* sendRequest; without a session the server refuses, as it does offline.
Send(do, arg) ==
  /\ who # Nobody /\ Dispatching /\ Len(stack) < MaxDepth /\ calls < MaxCalls /\ calls' = calls + 1
  /\ stack' = Append(stack, [do |-> do, arg |-> arg, got |-> None, old |-> FALSE])
  /\ wire' = Append(wire, [do |-> do, arg |-> arg, depth |-> Len(stack) + 1])
  /\ UNCHANGED <<server, who, desk, local, analytics, promos, events, sales, faults,
                 told, skewed, swept, undone>>

Ask(do, arg) == Send(do, arg) /\ UNCHANGED <<feed, gaps>>

Fetching == \E i \in DOMAIN stack : stack[i].do = "feed"

\* The server has marked all, and the client has yet to.
AllMarked == \E i \in DOMAIN stack : stack[i].do = "readAll" /\ stack[i].got # None

Returned(do) == stack # <<>> /\ Innermost.do = do /\ Innermost.got # None
Worked == Innermost.got.is = "ok"

\* The wait for the reply ends after five seconds; the request is served yet.
TimesOut(i) ==
  /\ stack[i].got = None /\ faults < MaxFaults /\ faults' = faults + 1
  /\ stack' = [stack EXCEPT ![i].got = Failed]
  /\ wire' = [w \in DOMAIN wire |->
                IF wire[w].depth = i THEN [wire[w] EXCEPT !.depth = 0] ELSE wire[w]]
  /\ UNCHANGED <<server, who, desk, local, analytics, promos, feed, events, calls, sales,
                 history>>

\* The connection is lost with all that was under way; the next one has no
\* session.
Lose ==
  /\ session # Nobody /\ faults < MaxFaults /\ faults' = faults + 1
  /\ session' = Nobody /\ wire' = <<>> /\ events' = <<>>
  /\ stack' = Aged([i \in DOMAIN stack |-> IF stack[i].got = None
                                           THEN [stack[i] EXCEPT !.got = Failed]
                                           ELSE stack[i]])
  /\ skewed' = TRUE /\ gaps' = TRUE
  /\ UNCHANGED <<stock, sold, rows, who, desk, local, analytics, promos, feed, calls, sales,
                 told, swept, undone>>

-----------------------------------------------------------------------------
(* The server. Notifications are stored and pushed to the connection of     *)
(* their user, if there is one.                                             *)

\* sendNotification / sendNotifications
Notify(u) ==
  /\ rows' = Append(rows, [to |-> u, read |-> FALSE])
  /\ events' = IF session = u THEN Append(events, [is |-> "note", id |-> Len(rows) + 1])
               ELSE events

Reply(q, r) ==
  /\ wire' = Tail(wire)
  /\ stack' = IF q.depth = 0 THEN stack ELSE [stack EXCEPT ![q.depth].got = r]

Handle(do) == wire # <<>> /\ Head(wire).do = do
Refuse == Reply(Head(wire), Failed)

Allowed(u) == session = u

\* handlePublishBook and notifyNewBook. The client may have stopped waiting.
HandlePublishBook ==
  /\ Handle("add")
  /\ LET late == Head(wire).depth = 0
     IN IF Allowed(publisher) /\ Len(stock) < MaxBooks
        THEN /\ stock' = Append(stock, [on |-> TRUE, off |-> FALSE])
             /\ Notify(reader) /\ gaps' = TRUE
             /\ skewed' = (skewed \/ late)
             /\ IF late THEN wire' = Tail(wire) /\ stack' = Aged(stack)
                ELSE Reply(Head(wire), Ok(Len(stock) + 1))
        ELSE Refuse /\ UNCHANGED <<stock, rows, events, gaps, skewed>>
  /\ UNCHANGED <<sold, session, who, desk, local, analytics, promos, feed, bounds, told,
                 swept, undone>>

Promoting(s, b) == \E i \in DOMAIN s : s[i].do = "promote" /\ s[i].arg.book = b

\* What a command makes of a book. A discount that goes while the client lists
\* the promotion, or is about to, is undone.
Rewrite(b, as) ==
  /\ stock' = [stock EXCEPT ![b] = as]
  /\ undone' = IF /\ stock[b].off /\ ~ as.off
                  /\ b \in promos \/ Promoting(stack, b)
               THEN undone \cup {b} ELSE undone
  /\ Reply(Head(wire), Ok(b))

Rewrites(do, as(_, _), allowed(_)) ==
  /\ Handle(do)
  /\ LET a == Head(wire).arg
     IN IF Allowed(publisher) /\ allowed(stock[a.book])
        THEN Rewrite(a.book, as(stock[a.book], a))
        ELSE Refuse /\ UNCHANGED <<stock, undone>>
  /\ UNCHANGED <<sold, rows, session, who, desk, local, analytics, promos, feed, bounds,
                 told, skewed, gaps, swept>>

EveryBook(b) == TRUE

\* The discount becomes what the form says, which knows of no promotion.
HandleUpdateBook ==
  /\ Rewrites("update", LAMBDA b, a : [b EXCEPT !.off = FALSE], EveryBook)
  /\ UNCHANGED events

\* handleActivateBook, handleDeactivateBook
HandleActivation ==
  /\ Rewrites("status", LAMBDA b, a : [b EXCEPT !.on = a.on], EveryBook)
  /\ UNCHANGED events

\* broadcastDiscountApplied goes to every connection.
Broadcast(ok) ==
  events' = IF ok THEN Append(events, [is |-> "discount", id |-> 0]) ELSE events

\* A second discount on a book is a conflict.
HandleApplyTimedDiscount ==
  /\ Rewrites("promote", LAMBDA b, a : [b EXCEPT !.off = TRUE], LAMBDA b : ~ b.off)
  /\ Broadcast(stock' # stock)

HandleClearDiscount ==
  /\ Rewrites("unpromote", LAMBDA b, a : [b EXCEPT !.off = FALSE], EveryBook)
  /\ Broadcast(Allowed(publisher))

\* Queries.
Fetch(do, u, x) ==
  /\ Handle(do)
  /\ IF Allowed(u) THEN Reply(Head(wire), Ok(x)) ELSE Refuse
  /\ UNCHANGED <<server, who, desk, local, analytics, promos, feed, events, bounds, history>>

HandleGetPublisherAnalytics == Fetch("analytics", publisher, Stats)
HandleGetNotifications == Fetch("feed", reader, Newest(reader))

\* markAsRead: an UPDATE, which succeeds whatever it matches.
HandleMarkNotificationRead ==
  /\ Handle("read")
  /\ LET n == Head(wire).arg.note
     IN IF session # Nobody
        THEN rows' = [rows EXCEPT ![n].read = TRUE] /\ Reply(Head(wire), Ok(n))
        ELSE Refuse /\ UNCHANGED rows
  /\ UNCHANGED <<stock, sold, session, who, desk, local, analytics, promos, feed, events,
                 bounds, history>>

HandleMarkAllNotificationsRead ==
  /\ Handle("readAll")
  /\ IF session # Nobody
     THEN /\ rows' = [n \in DOMAIN rows |->
                        IF rows[n].to = session THEN [rows[n] EXCEPT !.read = TRUE]
                        ELSE rows[n]]
          /\ Reply(Head(wire), Ok(0))
     ELSE Refuse /\ UNCHANGED rows
  /\ UNCHANGED <<stock, sold, session, who, desk, local, analytics, promos, feed, events,
                 bounds, history>>

\* Another user buys a book (notifyNewSale); a client that is not listening
\* does not learn of it.
Sale ==
  /\ sales < MaxSales /\ sales' = sales + 1 /\ \E b \in DOMAIN stock : stock[b].on
  /\ sold' = sold + 1 /\ Notify(publisher)
  /\ skewed' = (skewed \/ session # publisher)
  /\ stack' = IF session = publisher THEN stack ELSE Aged(stack)
  /\ UNCHANGED <<stock, session, who, desk, local, analytics, promos, feed, wire, calls,
                 faults, told, gaps, swept, undone>>

\* Another publisher's book of the reader's genre appears.
OtherBook ==
  /\ sales < MaxSales /\ sales' = sales + 1
  /\ Notify(reader)
  /\ gaps' = (gaps \/ session # reader)
  /\ UNCHANGED <<stock, sold, session, who, desk, local, analytics, promos, feed, stack, wire,
                 calls, faults, told, skewed, swept, undone>>

-----------------------------------------------------------------------------
(* The client: signing in, events.                                         *)

\* The services and what they keep survive the user. A publisher's shell makes
\* PublisherService, a reader's shell counts the unread notifications at once.
SignIn(u) ==
  /\ AtRest /\ session = Nobody
  /\ session' = u /\ who' = u
  /\ desk' = (desk \/ u = publisher)
  /\ UNCHANGED <<stock, sold, rows, local, analytics, promos, feed, stack, wire, events,
                 bounds, history>>

SignOut ==
  /\ AtRest /\ session # Nobody
  /\ session' = Nobody /\ who' = Nobody
  /\ UNCHANGED <<stock, sold, rows, desk, local, analytics, promos, feed, stack, wire, events,
                 bounds, history>>

\* _invalidateCaches
Invalidate ==
  /\ analytics' = Nothing /\ skewed' = FALSE
  /\ stack' = Aged(stack)

OnNotificationKeeping ==
  /\ Dispatching /\ events # <<>> /\ Head(events).is = "note" /\ events' = Tail(events)
  /\ UNCHANGED <<server, who, desk, local, analytics, promos, feed, stack, wire, bounds,
                 history>>

\* EvtNotification: PublisherService forgets its figures, NotificationService
\* puts the notification on top of its list.
OnNotification ==
  /\ Dispatching /\ events # <<>> /\ Head(events).is = "note" /\ events' = Tail(events)
  /\ IF Hears = "desk"
     THEN Invalidate /\ gaps' = TRUE /\ UNCHANGED <<feed, swept>>
     ELSE LET n == Head(events).id
          IN /\ feed' = <<[id |-> n, read |-> FALSE]>> \o feed
             /\ gaps' = (gaps \/ (feed = <<>> /\ ~ Fetching))
             /\ swept' = IF AllMarked THEN swept \cup {n} ELSE swept
             /\ UNCHANGED <<analytics, skewed, stack>>
  /\ UNCHANGED <<server, who, desk, local, promos, wire, bounds, told, undone>>

\* EvtDiscountApplied
OnDiscountApplied ==
  /\ Dispatching /\ events # <<>> /\ Head(events).is = "discount" /\ events' = Tail(events)
  /\ IF desk THEN Invalidate ELSE UNCHANGED <<analytics, skewed, stack>>
  /\ UNCHANGED <<server, who, desk, local, promos, feed, wire, bounds, told, gaps, swept, undone>>

-----------------------------------------------------------------------------
(* PublisherService.                                                       *)

AtDesk == who = publisher

AddBook == AtDesk /\ Ask("add", <<>>)
UpdateBook(b) == AtDesk /\ Ask("update", [book |-> b])
SetBookStatus(b, on) == AtDesk /\ Ask("status", [book |-> b, on |-> on])
AddPromotion(b) == AtDesk /\ Ask("promote", [book |-> b])
RemovePromotion(b) == AtDesk /\ Ask("unpromote", [book |-> b])
FetchAnalytics == AtDesk /\ analytics = Nothing /\ Ask("analytics", <<>>)

Return == stack' = Front(stack)
KeepsRest == UNCHANGED <<server, who, desk, wire, events, bounds>>

AddReturnsForgetting ==
  /\ Returned("add") /\ Return /\ KeepsRest
  /\ told' = told + 1
  /\ UNCHANGED <<local, analytics, promos, feed, skewed, gaps, swept, undone>>

\* addBook: the page always hears of success. The figures are amended by hand,
\* which makes them wrong if there were none, if they are newer than the book,
\* or if the server has no such book.
AddReturns ==
  /\ Returned("add") /\ KeepsRest
  /\ told' = told + 1
  /\ local' = IF Worked THEN local ELSE local + 1
  /\ analytics' = IF analytics = Nothing THEN [books |-> 1, sold |-> 0]
                  ELSE [analytics EXCEPT !.books = @ + 1]
  /\ skewed' = (skewed \/ analytics = Nothing \/ ~ Worked \/ Innermost.old)
  /\ stack' = Aged(Front(stack))
  /\ UNCHANGED <<promos, feed, gaps, swept, undone>>

\* updateBook and removeBook clear the figures whatever the server said.
UpdateReturns ==
  /\ Returned("update") /\ KeepsRest
  /\ analytics' = Nothing /\ skewed' = FALSE /\ stack' = Aged(Front(stack))
  /\ UNCHANGED <<local, promos, feed, told, gaps, swept, undone>>

\* setBookStatus clears them on success only, removeBook always.
StatusReturns ==
  /\ Returned("status") /\ KeepsRest
  /\ IF Worked \/ ~ Innermost.arg.on
     THEN analytics' = Nothing /\ skewed' = FALSE /\ stack' = Aged(Front(stack))
     ELSE Return /\ UNCHANGED <<analytics, skewed>>
  /\ UNCHANGED <<local, promos, feed, told, gaps, swept, undone>>

AddPromotionReturns ==
  /\ Returned("promote") /\ Return /\ KeepsRest
  /\ promos' = IF Worked THEN promos \cup {Innermost.arg.book} ELSE promos
  /\ UNCHANGED <<local, analytics, feed, history>>

\* removePromotion: the entry goes whatever the server said.
RemovePromotionReturns ==
  /\ Returned("unpromote") /\ Return /\ KeepsRest
  /\ promos' = promos \ {Innermost.arg.book}
  /\ undone' = IF Promoting(Front(stack), Innermost.arg.book) THEN undone
               ELSE undone \ {Innermost.arg.book}
  /\ UNCHANGED <<local, analytics, feed, told, skewed, gaps, swept>>

FetchAnalyticsReturns ==
  /\ Returned("analytics") /\ KeepsRest
  /\ IF Worked
     THEN /\ analytics' = Innermost.got.data /\ skewed' = Innermost.old
          /\ stack' = Aged(Front(stack))
     ELSE Return /\ UNCHANGED <<analytics, skewed>>
  /\ UNCHANGED <<local, promos, feed, told, gaps, swept, undone>>

\* refresh
RefreshDesk ==
  /\ AtDesk /\ Dispatching /\ calls < MaxCalls /\ calls' = calls + 1
  /\ Invalidate
  /\ UNCHANGED <<server, who, desk, local, promos, feed, wire, events, sales, faults, told,
                 gaps, swept, undone>>

-----------------------------------------------------------------------------
(* NotificationService.                                                    *)

AtFeed == who = reader

\* refresh empties the list and waits; every read of an empty list does it.
RefreshFeed ==
  /\ AtFeed /\ feed = <<>> /\ Send("feed", <<>>)
  /\ gaps' = FALSE /\ UNCHANGED feed
MarkRead(n) == AtFeed /\ Ask("read", [note |-> n])
MarkAllRead == AtFeed /\ Ask("readAll", <<>>)

RefreshFeedReplacing ==
  /\ Returned("feed") /\ Return /\ KeepsRest
  /\ feed' = IF Worked THEN Innermost.got.data ELSE feed
  /\ gaps' = (gaps \/ ~ Worked \/ Innermost.old)
  /\ swept' = IF Worked /\ AllMarked THEN swept \cup Ids(Innermost.got.data) ELSE swept
  /\ UNCHANGED <<local, analytics, promos, told, skewed, undone>>

\* The rows are appended to what events have put there meanwhile.
RefreshFeedReturns ==
  /\ Returned("feed") /\ Return /\ KeepsRest
  /\ feed' = IF Worked THEN feed \o Innermost.got.data ELSE feed
  /\ gaps' = (gaps \/ ~ Worked \/ Innermost.old)
  /\ swept' = IF Worked /\ AllMarked THEN swept \cup Ids(Innermost.got.data) ELSE swept
  /\ UNCHANGED <<local, analytics, promos, told, skewed, undone>>

Read(f, n) ==
  IF n \in Ids(f)
  THEN LET i == SelectInSeq(f, LAMBDA c : c.id = n) IN [f EXCEPT ![i].read = TRUE]
  ELSE f

\* The first entry of that id becomes read, if the server said so.
MarkReadReturns ==
  /\ Returned("read") /\ Return /\ KeepsRest
  /\ feed' = IF Worked THEN Read(feed, Innermost.arg.note) ELSE feed
  /\ UNCHANGED <<local, analytics, promos, history>>

MarkAllReadReturns ==
  /\ Returned("readAll") /\ Return /\ KeepsRest
  /\ feed' = IF Worked THEN [i \in DOMAIN feed |-> [feed[i] EXCEPT !.read = TRUE]] ELSE feed
  /\ UNCHANGED <<local, analytics, promos, history>>

\* deleteNotification, archiveNotification: here only.
DeleteNotification(i) ==
  /\ AtFeed /\ Dispatching /\ calls < MaxCalls /\ calls' = calls + 1
  /\ feed' = RemoveAt(feed, i) /\ gaps' = TRUE
  /\ UNCHANGED <<server, who, desk, local, analytics, promos, stack, wire, events, sales,
                 faults, told, skewed, swept, undone>>

-----------------------------------------------------------------------------
Requests ==
  \/ AddBook \/ FetchAnalytics \/ RefreshFeed \/ MarkAllRead \/ RefreshDesk
  \/ \E b \in DOMAIN stock :
       \/ UpdateBook(b) \/ AddPromotion(b) \/ RemovePromotion(b)
       \/ \E on \in BOOLEAN : SetBookStatus(b, on)
  \/ \E n \in Ids(feed) : MarkRead(n)
  \/ \E i \in DOMAIN feed : DeleteNotification(i)

Server ==
  \/ HandlePublishBook \/ HandleUpdateBook \/ HandleActivation
  \/ HandleApplyTimedDiscount \/ HandleClearDiscount
  \/ HandleGetPublisherAnalytics \/ HandleGetNotifications
  \/ HandleMarkNotificationRead \/ HandleMarkAllNotificationsRead
  \/ Sale \/ OtherBook

Returns ==
  \/ AddReturns \/ UpdateReturns \/ StatusReturns
  \/ AddPromotionReturns \/ RemovePromotionReturns \/ FetchAnalyticsReturns
  \/ RefreshFeedReturns \/ MarkReadReturns \/ MarkAllReadReturns

Events == OnNotification \/ OnDiscountApplied

Next ==
  \/ Requests \/ Server \/ Returns \/ Events
  \/ \E i \in DOMAIN stack : TimesOut(i)
  \/ Lose \/ SignOut \/ \E u \in Users : SignIn(u)

Spec == Init /\ [][Next]_vars

-----------------------------------------------------------------------------
TypeOK ==
  /\ stock \in Seq([on : BOOLEAN, off : BOOLEAN]) /\ Len(stock) \in 1 .. MaxBooks
  /\ sold \in 0 .. MaxSales /\ rows \in Seq([to : Users, read : BOOLEAN])
  /\ session \in {who, Nobody} /\ who \in Users \cup {Nobody}
  /\ who = publisher => desk
  /\ local \in 0 .. told /\ promos \subseteq DOMAIN stock
  /\ analytics \in [books : 1 .. MaxBooks + MaxCalls, sold : 0 .. MaxSales] \cup {Nothing}
  /\ Ids(feed) \subseteq RowsOf(reader) /\ Len(stack) <= MaxDepth
  /\ \A w \in DOMAIN wire : wire[w].depth \in 0 .. Len(stack)

\* Every title the page was told it has added is a book at the server or in the
\* list kept for the time without one, through refusals, late replies, lost
\* connections, users who change and refreshes.
NoTitleLost == told <= Len(stock) - 1 + local

\* Once nothing is under way, the publisher's figures are the server's, unless
\* they were amended for a book the server did not add, were fetched before
\* the figures they replace were given up, or a sale was not heard of.
DeskFresh ==
  stack = <<>> /\ events = <<>> /\ analytics # Nothing => analytics = Stats \/ skewed

\* A promotion on the page is a discount at the server, unless the server took
\* the discount off (an edit of the book, or a removal that overtakes).
PromotionsBacked == \A b \in promos : stock[b].off \/ b \in undone

\* The desk shows what the server has, books, figures and promotions together.
DeskAgrees == TypeOK /\ DeskFresh /\ PromotionsBacked

\* The reader's list holds every notification of theirs, through events while
\* the list is fetched, unless it was filled in part: fetched in vain, begun by
\* an event, heard by the other service, or deleted from.
FeedShowsAll ==
  stack = <<>> /\ events = <<>> /\ ~ gaps => RowsOf(reader) \subseteq Ids(feed)

\* What the list shows as read is read at the server, so it stays read after
\* the next fetch; but "mark all" takes along what came after the server did it.
ReadAgrees ==
  \A i \in DOMAIN feed : feed[i].read => rows[feed[i].id].read \/ feed[i].id \in swept

\* The list neither misses a notification nor shows as read what will come back
\* unread.
FeedAgrees == FeedShowsAll /\ ReadAgrees
=============================================================================
