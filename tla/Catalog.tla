------------------------------- MODULE Catalog -------------------------------
(***************************************************************************)
(* The server's catalogue: books, their genres, PDF files, discounts,      *)
(* reviews and ratings, and the columns of Books that summarise other      *)
(* tables. Statements are durable one by one (no transaction): a handler   *)
(* is its first statement and what it leaves in todo. The event loop runs  *)
(* no other handler before todo is done, but the process can die and time  *)
(* passes.                                                                 *)
(***************************************************************************)
EXTENDS Integers, FiniteSets

CONSTANTS
  Book,         \* ids of books; a publication uses one up
  Seeded,       \* the books sample_data.sql inserts
  Reader,       \* users who review and rate
  Genre,        \* genres
  Promo,        \* rows of Discounts: only sample_data.sql inserts any
  PromoBook,    \* the book of each such row
  Star,         \* the stars in use
  Price,        \* base prices in use
  Percent,      \* timed discounts in use, in percent
  Amount,       \* discounts a book's form may carry, in hundredths
  MaxReactions  \* bound: helpful marks and replies of one review

ASSUME CatalogAssumption ==
  /\ Seeded \subseteq Book /\ PromoBook \in [Promo -> Seeded]
  /\ Star \subseteq 1 .. 5 /\ Price \subseteq Nat /\ Percent \subseteq 1 .. 100
  /\ Amount \subseteq Int
  /\ IsFiniteSet(Reader) /\ MaxReactions \in Nat

VARIABLES
  row,          \* Books, by id; NoBook when there is none
  genres,       \* BookGenres, by book
  files,        \* books with a file in BookPdfStore
  reviews,      \* Reviews, by book and author (UNIQUE (bookId, userId))
  ratings,      \* Ratings, by book and user; 0 when there is no row
  ended,        \* rows of Discounts whose endsAt has passed
  running,      \* rows of Discounts with isActive = 1
  todo,         \* what the handler in progress has still to execute
  stale,        \* history: books whose summary a crash or an update spoiled
  asked,        \* history: the genres last asked for, by book
  torn,         \* history: books whose genres a crash cut short
  over          \* history: promotions over when a sweep last finished

history == <<stale, asked, torn, over>>
vars == <<row, genres, files, reviews, ratings, ended, running, todo, history>>

-----------------------------------------------------------------------------
NoReview == [stars |-> 0]
FreshReview(s) == [stars |-> s, pinned |-> FALSE, helpful |-> 0, replies |-> 0]
Review == [stars : Star, pinned : BOOLEAN,
           helpful : 0 .. MaxReactions, replies : 0 .. MaxReactions]

\* AVG(stars), COUNT(*) over both tables, as sum and count; the sum counts the
\* stars of each reader one by one.
Given(stars) == {g \in Reader \X (1 .. 5) : g[2] <= stars[g[1]]}
Rows(stars) == {r \in Reader : stars[r] # 0}
Summary(written, rated) ==
  LET stars == [r \in Reader |-> written[r].stars]
  IN [sum   |-> Cardinality(Given(stars)) + Cardinality(Given(rated)),
      count |-> Cardinality(Rows(stars)) + Cardinality(Rows(rated))]
EmptySummary == [sum |-> 0, count |-> 0]

\* Book::Book and createBookFromPayload: price, discount (an amount of money,
\* whatever the price), genres and path (on the publisher's machine, if any)
\* are the payload's, the rest is fresh.
FreshBook(p, d) ==
  [active |-> TRUE, availability |-> "Available", price |-> p,
   discount |-> d, rating |-> EmptySummary, path |-> "Own"]
NoBook == [active |-> FALSE]
Published == {b \in Book : row[b] # NoBook}

Nothing == [do |-> "nothing"]
Recalc(b) == [do |-> "recalc", book |-> b]
AddGenres(b, gs) == [do |-> "genres", book |-> b, left |-> gs]
StorePath(b) == [do |-> "path", book |-> b]
EndPromos == [do |-> "promos"]
Idle == todo = Nothing

\* What listings and searches return: featured, new, best selling, free and
\* found books all select on isActive.
Listed == {b \in Published : row[b].active}

\* What DownloadBookPdf can serve; it never looks at the column.
Downloadable == files

\* What Conflict is answered to: the book cannot get another discount.
Discounted(b) == b \in Published /\ row[b].discount > 0

-----------------------------------------------------------------------------
\* The seed script runs on the first start if it is found: books with genres,
\* reviews, ratings and promotions, and averages that are made up.
Init ==
  /\ \E here \in {{}, Seeded} :
       /\ \E p \in [Book -> Price], d \in [Book -> Amount] :
            row = [b \in Book |-> IF b \in here THEN FreshBook(p[b], d[b]) ELSE NoBook]
       /\ genres \in [Book -> SUBSET Genre]
       /\ reviews \in [Book -> [Reader -> {NoReview} \cup {FreshReview(s) : s \in Star}]]
       /\ ratings \in [Book -> [Reader -> {0} \cup Star]]
       /\ \A b \in Book \ here :
            /\ genres[b] = {}
            /\ \A r \in Reader : reviews[b][r] = NoReview /\ ratings[b][r] = 0
       /\ running = {d \in Promo : PromoBook[d] \in here}
       /\ stale = here
  /\ asked = genres
  /\ files = {} /\ ended = {} /\ torn = {} /\ over = {}
  /\ todo = Nothing

\* BookRepository::save and ::update write all the columns.
InsertBook(b, book) == b \notin Published /\ row' = [row EXCEPT ![b] = book]
WriteBook(b, book) == b \in Published /\ row' = [row EXCEPT ![b] = book]

\* syncBookGenres: one DELETE, then one INSERT for each genre.
SyncBookGenres(b, gs) ==
  /\ genres' = [genres EXCEPT ![b] = {}]
  /\ asked' = [asked EXCEPT ![b] = gs]
  /\ todo' = AddGenres(b, gs)
  /\ torn' = torn \ {b}

PublishBook(b, p, d, gs) ==
  /\ Idle /\ InsertBook(b, FreshBook(p, d))
  /\ SyncBookGenres(b, gs)
  /\ UNCHANGED <<files, reviews, ratings, ended, running, stale, over>>

\* The owner's update writes a fresh Book over every column: the summary and
\* what a moderator set are gone.
UpdateBook(b, p, d, gs) ==
  /\ Idle /\ WriteBook(b, FreshBook(p, d))
  /\ stale' = stale \cup {b}
  /\ SyncBookGenres(b, gs)
  /\ UNCHANGED <<files, reviews, ratings, ended, running, over>>

SetAvailability(b, now, how) ==
  /\ row' = [row EXCEPT ![b].active = now, ![b].availability = how]
  /\ UNCHANGED <<genres, files, reviews, ratings, ended, running, todo, history>>

\* No handler asks whose book it is.
ActivateBook(b) ==
  Idle /\ b \in Published /\ SetAvailability(b, TRUE, "Available")
DeactivateBook(b) ==
  Idle /\ b \in Published /\ SetAvailability(b, FALSE, "Unavailable")

\* With no discount in force, discountValue becomes an amount of the price
\* now stored; the dates are checked and dropped.
ApplyTimedDiscount(b, c) ==
  /\ Idle /\ b \in Published /\ ~ Discounted(b)
  /\ row' = [row EXCEPT ![b].discount = row[b].price * c]
  /\ UNCHANGED <<genres, files, reviews, ratings, ended, running, todo, history>>

ClearDiscountForgettingGenres(b) ==
  /\ Idle /\ WriteBook(b, [row[b] EXCEPT !.discount = 0])
  /\ genres' = [genres EXCEPT ![b] = {}]
  /\ UNCHANGED <<files, reviews, ratings, ended, running, todo, history>>

\* discountValue = 0 in the request: the row is read, changed and written
\* whole, its genres with it.
ClearDiscount(b) ==
  /\ Idle /\ WriteBook(b, [row[b] EXCEPT !.discount = 0])
  /\ SyncBookGenres(b, genres[b])
  /\ UNCHANGED <<files, reviews, ratings, ended, running, stale, over>>

UploadPathFirst(b) ==
  /\ Idle /\ b \in Published
  /\ row' = [row EXCEPT ![b].path = "Store"]
  /\ UNCHANGED <<genres, files, reviews, ratings, ended, running, todo, history>>

\* BookPdfStore::savePdf
SavePdf(b) == files' = files \cup {b}

\* The file first, then the column.
UploadBookPdf(b) ==
  /\ Idle /\ b \in Published
  /\ SavePdf(b) /\ todo' = StorePath(b)
  /\ UNCHANGED <<row, genres, reviews, ratings, ended, running, history>>

-----------------------------------------------------------------------------
(* The moderator.                                                          *)

\* An explicit action sets the state, none toggles it.
ModerateBook(b, action) ==
  /\ Idle /\ b \in Published
  /\ LET on == action = "active" \/ (action = "toggle" /\ ~ row[b].active)
     IN /\ row[b].active # on
        /\ SetAvailability(b, on, IF on THEN "Available" ELSE "Unavailable")

RemoveBookByAdmin(b) ==
  Idle /\ b \in Published /\ SetAvailability(b, FALSE, "Removed")

AdminApproveReview(b, r) ==
  /\ Idle /\ reviews[b][r] # NoReview
  /\ reviews' = [reviews EXCEPT ![b][r].pinned = TRUE]
  /\ UNCHANGED <<row, genres, files, ratings, ended, running, todo, history>>

-----------------------------------------------------------------------------
(* Readers. Each write is followed by recalculateBookRating.               *)

WriteReviewOnly(b, r, rev) ==
  /\ reviews' = [reviews EXCEPT ![b][r] = rev]
  /\ UNCHANGED <<row, genres, files, ratings, ended, running, todo, history>>

WriteReview(b, r, rev) ==
  /\ reviews' = [reviews EXCEPT ![b][r] = rev]
  /\ todo' = Recalc(b)
  /\ UNCHANGED <<row, genres, files, ratings, ended, running, history>>

\* An upsert: of a row that is there only text and stars change.
SubmitReview(b, r, s) ==
  /\ Idle /\ b \in Published
  /\ WriteReview(b, r, IF reviews[b][r] = NoReview
                       THEN FreshReview(s)
                       ELSE [reviews[b][r] EXCEPT !.stars = s])

UpdateReview(b, r, s) ==
  /\ Idle /\ reviews[b][r] # NoReview
  /\ WriteReview(b, r, [reviews[b][r] EXCEPT !.stars = s])

DeleteReview(b, r) ==
  Idle /\ reviews[b][r] # NoReview /\ WriteReview(b, r, NoReview)

AdminDeleteReview(b, r) ==
  Idle /\ reviews[b][r] # NoReview /\ WriteReview(b, r, NoReview)

WriteRating(b, r, s) ==
  /\ ratings' = [ratings EXCEPT ![b][r] = s]
  /\ todo' = Recalc(b)
  /\ UNCHANGED <<row, genres, files, reviews, ended, running, history>>

SetRating(b, r, s) == Idle /\ b \in Published /\ WriteRating(b, r, s)

React(b, r, rev) ==
  /\ Idle /\ reviews[b][r] # NoReview
  /\ reviews[b][r].helpful + reviews[b][r].replies < MaxReactions
  /\ reviews' = [reviews EXCEPT ![b][r] = rev]
  /\ UNCHANGED <<row, genres, files, ratings, ended, running, todo, history>>

MarkReviewHelpful(b, r) ==
  React(b, r, [reviews[b][r] EXCEPT !.helpful = @ + 1])

\* Only the count of replies is stored.
AddReviewReply(b, r) ==
  React(b, r, [reviews[b][r] EXCEPT !.replies = @ + 1])

-----------------------------------------------------------------------------
(* Later statements of a handler.                                          *)

RecalculateBookRating ==
  /\ todo.do = "recalc"
  /\ LET b == todo.book
     IN /\ row' = [row EXCEPT ![b].rating = Summary(reviews[b], ratings[b])]
        /\ stale' = stale \ {b}
  /\ todo' = Nothing
  /\ UNCHANGED <<genres, files, reviews, ratings, ended, running, asked, torn, over>>

InsertGenre ==
  /\ todo.do = "genres"
  /\ IF todo.left = {}
     THEN todo' = Nothing /\ UNCHANGED genres
     ELSE \E g \in todo.left :
            /\ genres' = [genres EXCEPT ![todo.book] = @ \cup {g}]
            /\ todo' = AddGenres(todo.book, todo.left \ {g})
  /\ UNCHANGED <<row, files, reviews, ratings, ended, running, history>>

UpdatePath ==
  /\ todo.do = "path"
  /\ row' = [row EXCEPT ![todo.book].path = "Store"]
  /\ todo' = Nothing
  /\ UNCHANGED <<genres, files, reviews, ratings, ended, running, history>>

-----------------------------------------------------------------------------
(* Time, the housekeeping timer and crashes.                               *)

\* endsAt of a promotion passes, whatever the server is doing.
PromotionEnds(d) ==
  /\ d \notin ended
  /\ ended' = ended \cup {d}
  /\ UNCHANGED <<row, genres, files, reviews, ratings, running, todo, history>>

SweepRowsFirst ==
  /\ Idle
  /\ running' = running \ ended
  /\ todo' = EndPromos
  /\ UNCHANGED <<row, genres, files, reviews, ratings, ended, history>>

\* deactivateExpired, first statement: books with an expired row marked
\* active lose their discount, whoever gave it.
SweepDiscounts ==
  /\ Idle
  /\ LET hit == {PromoBook[d] : d \in ended \cap running}
     IN row' = [b \in Book |->
                  IF b \in hit THEN [row[b] EXCEPT !.discount = 0] ELSE row[b]]
  /\ todo' = EndPromos
  /\ UNCHANGED <<genres, files, reviews, ratings, ended, running, history>>

DeactivateDiscounted ==
  /\ todo = EndPromos
  /\ running' = {d \in running : d \notin ended \/ ~ Discounted(PromoBook[d])}
  /\ todo' = Nothing /\ over' = ended
  /\ UNCHANGED <<row, genres, files, reviews, ratings, ended, stale, asked, torn>>

\* Second statement, with a later idea of now.
DeactivatePromos ==
  /\ todo = EndPromos
  /\ running' = running \ ended
  /\ todo' = Nothing /\ over' = ended
  /\ UNCHANGED <<row, genres, files, reviews, ratings, ended, stale, asked, torn>>

\* The process dies in the middle of a handler and is started again.
Crash ==
  /\ ~ Idle
  /\ todo' = Nothing
  /\ stale' = IF todo.do = "recalc" THEN stale \cup {todo.book} ELSE stale
  /\ torn' = IF todo.do = "genres" THEN torn \cup {todo.book} ELSE torn
  /\ UNCHANGED <<row, genres, files, reviews, ratings, ended, running, asked, over>>

-----------------------------------------------------------------------------
Publisher ==
  \/ \E b \in Book, p \in Price, d \in Amount, gs \in SUBSET Genre :
       PublishBook(b, p, d, gs) \/ UpdateBook(b, p, d, gs)
  \/ \E b \in Book : \/ ActivateBook(b) \/ DeactivateBook(b)
                     \/ ClearDiscount(b) \/ UploadBookPdf(b)
  \/ \E b \in Book, c \in Percent : ApplyTimedDiscount(b, c)

Admin ==
  \E b \in Book :
    \/ \E action \in {"active", "inactive", "toggle"} : ModerateBook(b, action)
    \/ RemoveBookByAdmin(b)
    \/ \E r \in Reader : AdminApproveReview(b, r) \/ AdminDeleteReview(b, r)

Readers ==
  \E b \in Book, r \in Reader :
    \/ \E s \in Star : \/ SubmitReview(b, r, s) \/ UpdateReview(b, r, s)
                       \/ SetRating(b, r, s)
    \/ DeleteReview(b, r) \/ MarkReviewHelpful(b, r) \/ AddReviewReply(b, r)

Continue == RecalculateBookRating \/ InsertGenre \/ UpdatePath \/ DeactivatePromos

Next ==
  \/ Publisher \/ Admin \/ Readers \/ Continue
  \/ \E d \in Promo : PromotionEnds(d)
  \/ SweepDiscounts
  \/ Crash

Spec == Init /\ [][Next]_vars

\* A handler that is running goes on, and the event loop, which serves the
\* 60 second timer after whatever came before, runs the sweep again and again.
FairSpec == Spec /\ WF_vars(Continue) /\ SF_vars(SweepDiscounts)

-----------------------------------------------------------------------------
BookRow ==
  [active : BOOLEAN, availability : {"Available", "Unavailable", "Removed"},
   price : Nat, discount : Int, rating : [sum : Nat, count : Nat],
   path : {"Own", "Store"}]

Rest ==
  {Nothing, EndPromos}
  \cup {Recalc(b) : b \in Published} \cup {StorePath(b) : b \in Published}
  \cup {AddGenres(b, gs) : b \in Published, gs \in SUBSET Genre}

TypeOK ==
  /\ row \in [Book -> {NoBook} \cup BookRow]
  /\ genres \in [Book -> SUBSET Genre] /\ asked \in [Book -> SUBSET Genre]
  /\ files \subseteq Published
  /\ reviews \in [Book -> [Reader -> {NoReview} \cup Review]]
  /\ ratings \in [Book -> [Reader -> {0} \cup Star]]
  /\ ended \subseteq Promo /\ running \subseteq Promo
  /\ todo \in Rest
  /\ stale \subseteq Book /\ torn \subseteq Book /\ over \subseteq Promo

\* averageRating and ratingCount are those of the rows of Reviews and Ratings
\* together, except while they are being recalculated and until the next
\* write after a crash at that point or an update of the book by its owner.
RatingsSummarised ==
  \A b \in Published :
    b \in stale \/ todo = Recalc(b)
    \/ row[b].rating = Summary(reviews[b], ratings[b])

\* isActive, which listings select on, and availability, which the reader's
\* page shows, tell the same story through every way of switching a book.
ListedIffAvailable ==
  \A b \in Published : b \in Listed <=> row[b].availability = "Available"

\* A book whose column names the store's file has that file, wherever a crash
\* hits.
StoredPathHasFile ==
  \A b \in Published : row[b].path = "Store" => b \in Downloadable

\* The genres of a book are those its publisher last asked for, although
\* clearing a discount deletes and inserts them again, except after a crash
\* in the middle.
GenresKept ==
  \A b \in Published :
    \/ b \in torn
    \/ genres[b] = asked[b]
    \/ todo.do = "genres" /\ todo.book = b /\ genres[b] \cup todo.left = asked[b]

\* A promotion that is over takes the discount off its book, unless it ends
\* between the two statements of a sweep.
EndedPromotionFreesBook ==
  \A d \in Promo :
    d \in ended \cap running /\ todo # EndPromos ~> ~ Discounted(PromoBook[d])

\* A sweep takes a discount away only for a promotion that has ended since the
\* last one finished: what the publisher gives a book after its promotion was
\* swept stays, though every sweep looks only at isActive and the clock.
SweptOnce ==
  [][Idle /\ todo' = EndPromos =>
       \A b \in Published :
         \/ row'[b].discount = row[b].discount
         \/ \E d \in ended \ over : PromoBook[d] = b]_vars
=============================================================================
