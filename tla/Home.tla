--------------------------------- MODULE Home ---------------------------------
(***************************************************************************)
(* The home page: HomeViewModel, which fills its lists in two waves, the   *)
(* caches of BookService behind them, and the events that clear these.     *)
(***************************************************************************)
EXTENDS Waits

VARIABLES
  offers,      \* the server's discounts, by how often they have changed
  bought,      \* the user's own purchases, likewise
  events,      \* EvtDiscountApplied on its way, by the offers it tells of
  sections,    \* m_homeSectionsCache, its offers, 0 for empty; its time is not up
  owned,       \* m_wishlist and m_purchasedIds: the purchases they show, 0 for empty
  resume,      \* m_continueReadingCache and whether it is valid
  list,        \* m_continueReading, m_recommended, ...: offers and purchases shown
  phase,       \* "idle", or m_refreshing: "wave1", "later" for m_wave2Timer, "wave2"
  told,        \* history: the offers and purchases the client has been told of
  off          \* history: caches and lists that may be behind, see HomeAgrees

caches == <<sections, owned, resume>>
homeVars == <<offers, bought, events, caches, list, phase, told, off>>

-----------------------------------------------------------------------------
\* Two lists of the second wave stand for its eight.
FirstWave == <<"continueReading", "recommended", "newReleases">>
SecondWave == <<"bestsellers", "newArrivals">>
Lists == ToSet(FirstWave \o SecondWave)

Empty == [offers |-> 0, bought |-> 0]
NoSections == [offers |-> 0, fresh |-> FALSE]
NoResume == [shows |-> Empty, valid |-> FALSE]

HomeInit ==
  /\ offers = 1 /\ bought = 1 /\ events = <<>>
  /\ sections = NoSections /\ owned = 0 /\ resume = NoResume
  /\ list = [l \in Lists |-> Empty] /\ phase = "idle"
  /\ told = [offers |-> 1, bought |-> 1] /\ off = {}

Marked(names, old, o) == IF old THEN o \cup names ELSE o \ names

-----------------------------------------------------------------------------
(* The server: BookRequestHandler and LibraryRequestHandler. A connection is *)
(* sent events and replies in one order.                                   *)

InOrder == events = <<>> /\ UNCHANGED homeVars

HandleGetHomeSections == Asked("sections") /\ InOrder /\ ReplyTo(stack, Ok(offers))
HandleGetBooksByIds == Asked("books") /\ InOrder /\ ReplyTo(stack, Ok(offers))
HandleGetLibrary == Asked("library") /\ InOrder /\ Answer(bought)

\* A publisher's discount is broadcast.
ApplyDiscount ==
  /\ Elsewhere(stack) /\ offers' = offers + 1 /\ events' = Append(events, offers')
  /\ UNCHANGED <<bought, caches, list, phase, told, off>>

-----------------------------------------------------------------------------
(* The waves. A caller says what becomes of the caches, the stack it has    *)
(* come back to, what the lists show and what is behind.                   *)

Stays(s) == stack' = s /\ hot' = TRUE /\ UNCHANGED <<session, wire, faults, changes>>

\* fetchHomeSections and parseBookList for every list left.
Fill(s, left, shown, o) ==
  LET here == ToSet(left)
      all == [offers |-> sections'.offers, bought |-> owned']
      ready == sections'.offers # 0 /\ sections'.fresh
      wave == IF here \cap ToSet(FirstWave) # {} THEN "wave1" ELSE "wave2"
  IN \/ /\ left = <<>> /\ Stays(s) /\ list' = shown /\ off' = o
        /\ phase' = IF phase = "wave2" THEN "idle" ELSE "later"
     \/ /\ left # <<>> /\ ~ ready /\ list' = shown /\ off' = o /\ phase' = wave
        /\ SendOn(s, "sections", "sections", [left |-> left], FALSE)
     \/ /\ left # <<>> /\ ready /\ owned' = 0 /\ list' = shown /\ off' = o /\ phase' = wave
        /\ SendOn(s, "parse", "library",
                  [left |-> left, shows |-> sections'.offers, behind |-> "sections" \in o,
                   again |-> TRUE], FALSE)
     \/ /\ left # <<>> /\ ready /\ owned' # 0 /\ Stays(s)
        /\ list' = [l \in Lists |-> IF l \in here THEN all ELSE shown[l]]
        /\ off' = Marked(here, o \cap {"sections", "owned"} # {}, o)
        /\ phase' = IF wave = "wave2" THEN "idle" ELSE "later"

\* _loadWave1 starts with continueReading.
LoadWave1(s, o) ==
  LET cleared == [l \in Lists |-> IF l \in ToSet(FirstWave) THEN Empty ELSE list[l]]
  IN \/ /\ resume'.valid
        /\ Fill(s, Tail(FirstWave), [cleared EXCEPT !["continueReading"] = resume'.shows],
                Marked({"continueReading"}, "resume" \in o, o))
     \/ /\ ~ resume'.valid /\ list' = cleared /\ off' = o /\ phase' = "wave1"
        /\ SendOn(s, "resume", "library", <<>>, FALSE)

\* refresh() when the client has been told something: lost on a refreshing page.
RefreshFor(s, o) ==
  \/ phase = "idle" /\ LoadWave1(s, o)
  \/ phase # "idle" /\ Stays(s) /\ off' = o \cup Lists /\ UNCHANGED <<list, phase>>

-----------------------------------------------------------------------------
(* What makes it refresh.                                                  *)

RefreshTimer ==
  /\ Command /\ phase = "idle" /\ UNCHANGED <<offers, bought, events, caches, told>>
  /\ LoadWave1(stack, off)

\* Replies that have come, and books being parsed, are behind: as to discounts,
Discounted ==
  [i \in DOMAIN stack |->
     IF stack[i].op = "parse" THEN [stack[i] EXCEPT !.arg.behind = TRUE]
     ELSE [stack[i] EXCEPT !.old = @ \/ (stack[i].op \in {"sections", "related", "books"}
                                        /\ stack[i].got # None)]]

\* as to purchases.
CheckedOut ==
  [i \in DOMAIN stack |->
     [stack[i] EXCEPT !.old = @ \/ stack[i].op = "books"
                               \/ (stack[i].op \in {"resume", "parse", "known"}
                                   /\ stack[i].got # None)]]

EventComesKeepingSections ==
  /\ events # <<>> /\ events' = Tail(events) /\ told' = [told EXCEPT !.offers = Head(events)]
  /\ resume' = NoResume /\ UNCHANGED <<sections, owned>>
  /\ RefreshFor(Discounted, off \ {"sections", "resume"})
  /\ UNCHANGED <<offers, bought, calls>>

EventComes ==
  /\ events # <<>> /\ events' = Tail(events) /\ told' = [told EXCEPT !.offers = Head(events)]
  /\ sections' = NoSections /\ resume' = NoResume /\ UNCHANGED owned
  /\ RefreshFor(Discounted, off \ {"sections", "resume"})
  /\ UNCHANGED <<offers, bought, calls>>

\* The shell tells BookService of a checkout.
CheckoutSucceeded ==
  /\ Command /\ bought' = bought + 1 /\ told' = [told EXCEPT !.bought = bought']
  /\ sections' = NoSections /\ owned' = 0 /\ resume' = NoResume
  /\ RefreshFor(CheckedOut, off \ {"sections", "owned", "resume"})
  /\ UNCHANGED <<offers, events>>

LoadWave2 ==
  /\ Dispatching /\ phase = "later" /\ UNCHANGED <<offers, bought, events, caches, told>>
  /\ Fill(stack, SecondWave,
          [l \in Lists |-> IF l \in ToSet(SecondWave) THEN Empty ELSE list[l]], off)
  /\ UNCHANGED calls

\* Sixty and thirty seconds have gone by.
Expire ==
  /\ \/ sections.fresh /\ sections' = [sections EXCEPT !.fresh = FALSE] /\ UNCHANGED resume
     \/ resume.valid /\ resume' = NoResume /\ UNCHANGED sections
  /\ Idle /\ UNCHANGED <<hot, offers, bought, events, owned, list, phase, told, off, calls>>

-----------------------------------------------------------------------------
(* What the replies are kept as.                                           *)

KeepSections ==
  sections' = IF Worked THEN [offers |-> Got, fresh |-> TRUE] ELSE sections
SectionsOff == IF Worked THEN Marked({"sections"}, Innermost.old, off) ELSE off

Learns == Worked /\ owned = 0
KeepOwned == owned' = IF Learns THEN Got ELSE owned
OwnedOff == IF Learns THEN Marked({"owned"}, Innermost.old, off) ELSE off
TriesAgain == ~ Worked /\ owned = 0 /\ Innermost.arg.again
TryAgain(op) ==
  SendNext(op, "library", [Innermost.arg EXCEPT !.again = FALSE], Innermost.old)

\* A list is parsed from what fetchHomeSections returned, kept or just come.
SectionsReturn ==
  /\ Returned("sections") /\ KeepSections /\ UNCHANGED <<owned, resume, calls>>
  /\ LET left == Innermost.arg.left
         now == [offers |-> sections'.offers, bought |-> owned]
     IN \/ /\ owned = 0 /\ off' = SectionsOff /\ UNCHANGED <<list, phase>>
           /\ SendOn(Under, "parse", "library",
                     [left |-> left, shows |-> sections'.offers,
                      behind |-> "sections" \in SectionsOff, again |-> TRUE], FALSE)
        \/ /\ owned # 0
           /\ Fill(Under, Tail(left), [list EXCEPT ![Head(left)] = now],
                   Marked({Head(left)}, SectionsOff \cap {"sections", "owned"} # {},
                          SectionsOff))
  /\ UNCHANGED <<offers, bought, events, told>>

ParseReturns ==
  /\ Returned("parse") /\ UNCHANGED <<offers, bought, events, told, sections, resume, calls>>
  /\ KeepOwned
  /\ \/ TriesAgain /\ TryAgain("parse") /\ UNCHANGED <<list, phase, off>>
     \/ /\ ~ TriesAgain
        /\ LET l == Head(Innermost.arg.left)
           IN Fill(Under, Tail(Innermost.arg.left),
                   [list EXCEPT ![l] = [offers |-> Innermost.arg.shows, bought |-> owned']],
                   Marked({l}, Innermost.arg.behind \/ "owned" \in OwnedOff, OwnedOff))

\* GetLibrary for continueReading, and then GetBooksByIds.
ResumeReturns ==
  /\ Returned("resume") /\ UNCHANGED <<offers, bought, events, told, sections, owned, calls>>
  /\ \/ /\ Worked /\ SendOn(Under, "books", "books", [bought |-> Got], Innermost.old)
        /\ UNCHANGED <<resume, list, phase, off>>
     \/ /\ ~ Worked /\ resume' = NoResume /\ Fill(Under, Tail(FirstWave), list, off)

ResumeBooksReturn ==
  /\ Returned("books") /\ UNCHANGED <<offers, bought, events, told, sections, owned, calls>>
  /\ resume' = IF Worked THEN [shows |-> [offers |-> Got, bought |-> Innermost.arg.bought],
                               valid |-> TRUE]
               ELSE NoResume
  /\ Fill(Under, Tail(FirstWave), [list EXCEPT !["continueReading"] = resume'.shows],
          Marked({"resume", "continueReading"}, Worked /\ Innermost.old, off))

\* A book's page reads the sections for its related books.
ReadRelated ==
  /\ Command /\ Shallow /\ ~ sections.fresh /\ UNCHANGED homeVars
  /\ SendOn(stack, "related", "sections", [again |-> TRUE], FALSE)

RelatedReturn ==
  /\ Returned("related") /\ KeepSections /\ off' = SectionsOff
  /\ \/ owned = 0 /\ SendNext("known", "library", Innermost.arg, FALSE)
     \/ owned # 0 /\ Ends(FALSE)
  /\ UNCHANGED <<offers, bought, events, owned, resume, list, phase, told>>

KnownReturn ==
  /\ Returned("known") /\ KeepOwned /\ off' = OwnedOff
  /\ \/ TriesAgain /\ TryAgain("known")
     \/ ~ TriesAgain /\ Ends(FALSE)
  /\ UNCHANGED <<offers, bought, events, sections, resume, list, phase, told>>

-----------------------------------------------------------------------------
HomeNext ==
  \/ RefreshTimer \/ EventComes \/ CheckoutSucceeded \/ LoadWave2 \/ Expire
  \/ SectionsReturn \/ ParseReturns \/ ResumeReturns \/ ResumeBooksReturn
  \/ ReadRelated \/ RelatedReturn \/ KnownReturn
  \/ HandleGetHomeSections \/ HandleGetBooksByIds \/ HandleGetLibrary \/ ApplyDiscount

-----------------------------------------------------------------------------
\* Once nothing is under way and every event has come, the page is not refreshing
\* unless its second wave is to come; when it is not, no list shows a discount or
\* a purchase older than the client was told of, whatever reply, event, checkout
\* and expiry came in which order. A list may be behind when the telling came in
\* the middle of a refresh, which drops it, or with an older reply in hand, which
\* is then cached.
HomeAgrees ==
  AtRest /\ events = <<>> =>
    /\ phase \in {"idle", "later"}
    /\ phase = "idle" =>
         \A l \in Lists : \/ l \in off
                          \/ /\ list[l].offers \in {0} \cup told.offers..offers
                             /\ list[l].bought \in {0} \cup told.bought..bought
=============================================================================
