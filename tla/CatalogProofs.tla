---------------------------- MODULE CatalogProofs ----------------------------
(***************************************************************************)
(* Proofs about Catalog, for any books, readers, genres, promotions and    *)
(* prices: what is kept beside the rows of other tables agrees with them.  *)
(***************************************************************************)
EXTENDS Catalog, FiniteSetTheorems, TLAPS

\* A book that was never published has nothing written about it.
Unwritten ==
  \A b \in Book \ Published, r \in Reader :
    reviews[b][r] = NoReview /\ ratings[b][r] = 0

\* A promotion that is running has a book.
Promoted == \A d \in running : PromoBook[d] \in Published

CatalogInv == TypeOK /\ Unwritten /\ Promoted

\* A mark on a review that keeps its stars.
Remark(b, r, rev) ==
  /\ reviews' = [reviews EXCEPT ![b][r] = rev]
  /\ rev.stars = reviews[b][r].stars
  /\ UNCHANGED <<row, genres, files, ratings, ended, running, todo, history>>

Ways == {"Available", "Unavailable", "Removed"}

-----------------------------------------------------------------------------
(* Rows and records.                                                       *)

LEMMA RowIsBook ==
  ASSUME TypeOK, NEW b \in Published
  PROVE  b \in Book /\ row[b] \in BookRow
  BY DEF TypeOK, Published

LEMMA BookIsNoRow == NoBook \notin BookRow
<1> SUFFICES ASSUME NoBook \in BookRow PROVE FALSE
  OBVIOUS
<1>1. DOMAIN NoBook = {"active"}
  BY DEF NoBook
<1>2. "price" \in DOMAIN NoBook
  BY DEF BookRow
<1> QED
  BY <1>1, <1>2

LEMMA ReviewIsNoRow == NoReview \notin Review
<1> SUFFICES ASSUME NoReview \in Review PROVE FALSE
  OBVIOUS
<1>1. DOMAIN NoReview = {"stars"}
  BY DEF NoReview
<1>2. "pinned" \in DOMAIN NoReview
  BY DEF Review
<1> QED
  BY <1>1, <1>2

LEMMA FreshFacts ==
  ASSUME NEW p \in Price, NEW d \in Amount
  PROVE  /\ FreshBook(p, d) \in BookRow
         /\ FreshBook(p, d).rating = EmptySummary
         /\ FreshBook(p, d).active = TRUE
         /\ FreshBook(p, d).availability = "Available"
         /\ FreshBook(p, d).path = "Own"
<1>1. p \in Nat /\ d \in Int
  BY CatalogAssumption
<1> QED
  BY <1>1 DEF FreshBook, BookRow, EmptySummary

LEMMA DiscountFacts ==
  ASSUME NEW k \in BookRow, NEW d \in Int
  PROVE  LET n == [k EXCEPT !.discount = d]
         IN  /\ n \in BookRow /\ n.discount = d
             /\ n.price = k.price /\ n.rating = k.rating /\ n.active = k.active
             /\ n.availability = k.availability /\ n.path = k.path
  BY DEF BookRow

LEMMA RatingFacts ==
  ASSUME NEW k \in BookRow, NEW x \in [sum : Nat, count : Nat]
  PROVE  LET n == [k EXCEPT !.rating = x]
         IN  /\ n \in BookRow /\ n.rating = x
             /\ n.price = k.price /\ n.discount = k.discount /\ n.active = k.active
             /\ n.availability = k.availability /\ n.path = k.path
  BY DEF BookRow

LEMMA PathFacts ==
  ASSUME NEW k \in BookRow
  PROVE  LET n == [k EXCEPT !.path = "Store"]
         IN  /\ n \in BookRow /\ n.path = "Store" /\ n.rating = k.rating
             /\ n.price = k.price /\ n.discount = k.discount /\ n.active = k.active
             /\ n.availability = k.availability
  BY DEF BookRow

LEMMA AvailabilityFacts ==
  ASSUME NEW k \in BookRow, NEW now \in BOOLEAN, NEW how \in Ways
  PROVE  LET n == [k EXCEPT !.active = now, !.availability = how]
         IN  /\ n \in BookRow /\ n.active = now /\ n.availability = how
             /\ n.path = k.path /\ n.rating = k.rating
             /\ n.price = k.price /\ n.discount = k.discount
  BY DEF BookRow, Ways

-----------------------------------------------------------------------------
(* Summaries.                                                              *)

LEMMA StarsFinite ==
  ASSUME NEW stars
  PROVE  Cardinality(Given(stars)) \in Nat /\ Cardinality(Rows(stars)) \in Nat
<1>1. IsFiniteSet(Reader) /\ IsFiniteSet(1 .. 5)
  <2>1. IsFiniteSet(Reader)
    BY CatalogAssumption
  <2>2. 1 \in Int /\ 5 \in Int
    OBVIOUS
  <2>3. IsFiniteSet(1 .. 5)
    BY <2>2, FS_Interval
  <2> QED
    BY <2>1, <2>3
<1>2. IsFiniteSet(Reader \X (1 .. 5))
  BY <1>1, FS_Product
<1>3. Given(stars) \in SUBSET (Reader \X (1 .. 5)) /\ Rows(stars) \in SUBSET Reader
  BY DEF Given, Rows
<1>4. IsFiniteSet(Given(stars)) /\ IsFiniteSet(Rows(stars))
  BY <1>1, <1>2, <1>3, FS_Subset
<1> QED
  BY <1>4, FS_CardinalityType

LEMMA SummaryType ==
  ASSUME NEW written, NEW rated
  PROVE  Summary(written, rated) \in [sum : Nat, count : Nat]
  BY StarsFinite DEF Summary

\* What is kept of the reviews is their stars.
LEMMA SameStars ==
  ASSUME NEW w, NEW v, NEW rated, \A r \in Reader : w[r].stars = v[r].stars
  PROVE  Summary(w, rated) = Summary(v, rated)
<1>1. [r \in Reader |-> w[r].stars] = [r \in Reader |-> v[r].stars]
  OBVIOUS
<1> QED
  BY <1>1 DEF Summary

\* Nothing written, nothing summed.
LEMMA NoSummary ==
  ASSUME NEW w, NEW rated,
         \A r \in Reader : w[r] = NoReview /\ rated[r] = 0
  PROVE  Summary(w, rated) = EmptySummary
<1> DEFINE stars == [r \in Reader |-> w[r].stars]
<1>1. \A r \in Reader : stars[r] = 0
  BY DEF NoReview
<1>2. Given(stars) = {} /\ Rows(stars) = {} /\ Given(rated) = {} /\ Rows(rated) = {}
  BY <1>1 DEF Given, Rows
<1> HIDE DEF stars
<1>3. Cardinality({}) = 0
  BY FS_EmptySet
<1> QED
  BY <1>2, <1>3 DEF Summary, EmptySummary, stars

-----------------------------------------------------------------------------
(* The steps, by what they do.                                             *)

LEMMA KindsOfTodo ==
  ASSUME TypeOK
  PROVE  /\ todo.do = "recalc" => \E b \in Published : todo = Recalc(b)
         /\ todo.do = "path" => \E b \in Published : todo = StorePath(b)
         /\ todo.do = "genres" =>
              \E b \in Published, gs \in SUBSET Genre : todo = AddGenres(b, gs)
  BY DEF TypeOK, Rest, Nothing, EndPromos, Recalc, StorePath, AddGenres

\* Every step is one of these.
Kinds ==
  \/ \E b \in Book, p \in Price, d \in Amount, gs \in SUBSET Genre :
       PublishBook(b, p, d, gs)
  \/ \E b \in Published, p \in Price, d \in Amount, gs \in SUBSET Genre :
       UpdateBook(b, p, d, gs)
  \/ \E b \in Published, now \in BOOLEAN, how \in Ways :
       Idle /\ (now <=> how = "Available") /\ SetAvailability(b, now, how)
  \/ \E b \in Published, c \in Percent : ApplyTimedDiscount(b, c)
  \/ \E b \in Published : ClearDiscount(b)
  \/ \E b \in Published : UploadBookPdf(b)
  \/ \E b \in Published, r \in Reader, rev \in {NoReview} \cup Review :
       Idle /\ WriteReview(b, r, rev)
  \/ \E b \in Published, r \in Reader, s \in Star : Idle /\ WriteRating(b, r, s)
  \/ \E b \in Published, r \in Reader, rev \in Review : Remark(b, r, rev)
  \/ \E b \in Published : todo = Recalc(b) /\ RecalculateBookRating
  \/ \E b \in Published, gs \in SUBSET Genre : todo = AddGenres(b, gs) /\ InsertGenre
  \/ \E b \in Published : todo = StorePath(b) /\ UpdatePath
  \/ DeactivatePromos \/ SweepDiscounts \/ Crash
  \/ \E d \in Promo : PromotionEnds(d)

LEMMA Written ==
  ASSUME CatalogInv, NEW b \in Book, NEW r \in Reader, reviews[b][r] # NoReview
  PROVE  b \in Published /\ reviews[b][r] \in Review
  BY DEF CatalogInv, Unwritten, TypeOK

LEMMA FreshReviews == \A s \in Star : FreshReview(s) \in Review
  BY CatalogAssumption DEF FreshReview, Review

\* A review with some of its fields changed is a review.
LEMMA ReviewFacts ==
  ASSUME NEW v \in Review
  PROVE  /\ \A s \in Star : [v EXCEPT !.stars = s] \in Review
         /\ [v EXCEPT !.pinned = TRUE] \in Review
         /\ [v EXCEPT !.pinned = TRUE].stars = v.stars
<1>1. \A s \in Star : [v EXCEPT !.stars = s] \in Review
  BY DEF Review
<1>2. [v EXCEPT !.pinned = TRUE] \in Review
  BY DEF Review
<1>3. [v EXCEPT !.pinned = TRUE].stars = v.stars
  BY DEF Review
<1> QED
  BY <1>1, <1>2, <1>3

LEMMA ReactionFacts ==
  ASSUME NEW v \in Review, v.helpful + v.replies < MaxReactions
  PROVE  /\ [v EXCEPT !.helpful = @ + 1] \in Review
         /\ [v EXCEPT !.helpful = @ + 1].stars = v.stars
         /\ [v EXCEPT !.replies = @ + 1] \in Review
         /\ [v EXCEPT !.replies = @ + 1].stars = v.stars
<1>1. MaxReactions \in Nat /\ v.helpful \in 0 .. MaxReactions
      /\ v.replies \in 0 .. MaxReactions
  BY CatalogAssumption DEF Review
<1>2. v.helpful + 1 \in 0 .. MaxReactions /\ v.replies + 1 \in 0 .. MaxReactions
  BY <1>1
<1>3. [v EXCEPT !.helpful = v.helpful + 1] \in Review
      /\ [v EXCEPT !.helpful = v.helpful + 1].stars = v.stars
  BY <1>2 DEF Review
<1>4. [v EXCEPT !.replies = v.replies + 1] \in Review
      /\ [v EXCEPT !.replies = v.replies + 1].stars = v.stars
  BY <1>2 DEF Review
<1> QED
  BY <1>3, <1>4

LEMMA PublisherKinds == CatalogInv /\ Publisher => Kinds
<1> SUFFICES ASSUME CatalogInv, Publisher PROVE Kinds
  OBVIOUS
<1>1. ASSUME NEW b \in Book, NEW p \in Price, NEW d \in Amount,
             NEW gs \in SUBSET Genre,
             PublishBook(b, p, d, gs) \/ UpdateBook(b, p, d, gs)
      PROVE  Kinds
  BY <1>1 DEF Kinds, UpdateBook, WriteBook
<1>2. ASSUME NEW b \in Book, ActivateBook(b) \/ DeactivateBook(b) PROVE Kinds
  BY <1>2 DEF Kinds, ActivateBook, DeactivateBook, Ways
<1>3. ASSUME NEW b \in Book, ClearDiscount(b) PROVE Kinds
  BY <1>3 DEF Kinds, ClearDiscount, WriteBook
<1>4. ASSUME NEW b \in Book, UploadBookPdf(b) PROVE Kinds
  BY <1>4 DEF Kinds, UploadBookPdf
<1>5. ASSUME NEW b \in Book, NEW c \in Percent, ApplyTimedDiscount(b, c) PROVE Kinds
  BY <1>5 DEF Kinds, ApplyTimedDiscount
<1> QED
  BY <1>1, <1>2, <1>3, <1>4, <1>5 DEF Publisher

LEMMA AdminKinds == CatalogInv /\ Admin => Kinds
<1> SUFFICES ASSUME CatalogInv, NEW b \in Book,
                    \/ \E action \in {"active", "inactive", "toggle"} :
                         ModerateBook(b, action)
                    \/ RemoveBookByAdmin(b)
                    \/ \E r \in Reader :
                         AdminApproveReview(b, r) \/ AdminDeleteReview(b, r)
             PROVE  Kinds
  BY DEF Admin
<1>1. ASSUME NEW action \in {"active", "inactive", "toggle"}, ModerateBook(b, action)
      PROVE  Kinds
  <2> DEFINE on == action = "active" \/ (action = "toggle" /\ ~ row[b].active)
             how == IF on THEN "Available" ELSE "Unavailable"
  <2>1. Idle /\ b \in Published /\ SetAvailability(b, on, how)
    BY <1>1 DEF ModerateBook
  <2>2. on \in BOOLEAN /\ how \in Ways /\ (on <=> how = "Available")
    BY DEF Ways
  <2> HIDE DEF on, how
  <2> QED
    BY <2>1, <2>2 DEF Kinds
<1>2. CASE RemoveBookByAdmin(b)
  BY <1>2 DEF Kinds, RemoveBookByAdmin, Ways
<1>3. ASSUME NEW r \in Reader, AdminApproveReview(b, r) PROVE Kinds
  <2>1. b \in Published /\ reviews[b][r] \in Review
    BY <1>3, Written DEF AdminApproveReview
  <2> DEFINE rev == [reviews[b][r] EXCEPT !.pinned = TRUE]
  <2>2. rev \in Review /\ rev.stars = reviews[b][r].stars
    BY <2>1, ReviewFacts
  <2>3. reviews' = [reviews EXCEPT ![b][r] = rev]
    BY <1>3 DEF AdminApproveReview
  <2> HIDE DEF rev
  <2>4. Remark(b, r, rev)
    BY <1>3, <2>2, <2>3 DEF AdminApproveReview, Remark
  <2> QED
    BY <2>1, <2>2, <2>4 DEF Kinds
<1>4. ASSUME NEW r \in Reader, AdminDeleteReview(b, r) PROVE Kinds
  BY <1>4, Written DEF AdminDeleteReview, Kinds
<1> QED
  BY <1>1, <1>2, <1>3, <1>4

LEMMA ReaderKinds == CatalogInv /\ Readers => Kinds
<1> SUFFICES ASSUME CatalogInv, NEW b \in Book, NEW r \in Reader,
                    \/ \E s \in Star : \/ SubmitReview(b, r, s) \/ UpdateReview(b, r, s)
                                       \/ SetRating(b, r, s)
                    \/ DeleteReview(b, r) \/ MarkReviewHelpful(b, r)
                    \/ AddReviewReply(b, r)
             PROVE  Kinds
  BY DEF Readers
<1>1. ASSUME NEW s \in Star, SubmitReview(b, r, s) PROVE Kinds
  <2> DEFINE rev == IF reviews[b][r] = NoReview THEN FreshReview(s)
                    ELSE [reviews[b][r] EXCEPT !.stars = s]
  <2>1. Idle /\ b \in Published /\ WriteReview(b, r, rev)
    BY <1>1 DEF SubmitReview
  <2>2. FreshReview(s) \in Review
    BY FreshReviews
  <2>3. rev \in Review
    BY <2>2, Written, ReviewFacts
  <2> HIDE DEF rev
  <2> QED
    BY <2>1, <2>3 DEF Kinds
<1>2. ASSUME NEW s \in Star, UpdateReview(b, r, s) PROVE Kinds
  <2> DEFINE rev == [reviews[b][r] EXCEPT !.stars = s]
  <2>1. Idle /\ reviews[b][r] # NoReview /\ WriteReview(b, r, rev)
    BY <1>2 DEF UpdateReview
  <2>2. b \in Published /\ rev \in Review
    BY <2>1, Written, ReviewFacts
  <2> HIDE DEF rev
  <2> QED
    BY <2>1, <2>2 DEF Kinds
<1>3. ASSUME NEW s \in Star, SetRating(b, r, s) PROVE Kinds
  BY <1>3 DEF SetRating, Kinds
<1>4. CASE DeleteReview(b, r)
  BY <1>4, Written DEF DeleteReview, Kinds
<1>5. ASSUME NEW rev, rev \in Review, rev.stars = reviews[b][r].stars, b \in Published,
             React(b, r, rev)
      PROVE  Kinds
  <2>1. Remark(b, r, rev)
    BY <1>5 DEF React, Remark
  <2> QED
    BY <1>5, <2>1 DEF Kinds
<1>6. CASE MarkReviewHelpful(b, r)
  <2> DEFINE rev == [reviews[b][r] EXCEPT !.helpful = @ + 1]
  <2>1. React(b, r, rev)
    BY <1>6 DEF MarkReviewHelpful
  <2>2. b \in Published /\ reviews[b][r] \in Review
    BY <2>1, Written DEF React
  <2>3. reviews[b][r].helpful + reviews[b][r].replies < MaxReactions
    BY <2>1 DEF React
  <2>4. rev \in Review /\ rev.stars = reviews[b][r].stars
    BY <2>2, <2>3, ReactionFacts
  <2> HIDE DEF rev
  <2> QED
    BY <2>1, <2>2, <2>4, <1>5
<1>7. CASE AddReviewReply(b, r)
  <2> DEFINE rev == [reviews[b][r] EXCEPT !.replies = @ + 1]
  <2>1. React(b, r, rev)
    BY <1>7 DEF AddReviewReply
  <2>2. b \in Published /\ reviews[b][r] \in Review
    BY <2>1, Written DEF React
  <2>3. reviews[b][r].helpful + reviews[b][r].replies < MaxReactions
    BY <2>1 DEF React
  <2>4. rev \in Review /\ rev.stars = reviews[b][r].stars
    BY <2>2, <2>3, ReactionFacts
  <2> HIDE DEF rev
  <2> QED
    BY <2>1, <2>2, <2>4, <1>5
<1> QED
  BY <1>1, <1>2, <1>3, <1>4, <1>6, <1>7

LEMMA NextKinds == CatalogInv /\ Next => Kinds
<1> SUFFICES ASSUME CatalogInv, Next PROVE Kinds
  OBVIOUS
<1>1. CASE RecalculateBookRating \/ InsertGenre \/ UpdatePath
  BY <1>1, KindsOfTodo DEF Kinds, CatalogInv, RecalculateBookRating, InsertGenre, UpdatePath
<1>2. CASE DeactivatePromos \/ SweepDiscounts \/ Crash
  BY <1>2 DEF Kinds
<1>3. ASSUME NEW d \in Promo, PromotionEnds(d) PROVE Kinds
  BY <1>3 DEF Kinds
<1> QED
  BY <1>1, <1>2, <1>3, PublisherKinds, AdminKinds, ReaderKinds DEF Next, Continue

-----------------------------------------------------------------------------
(* Types.                                                                  *)

\* No row is ever removed.
LEMMA RowWritten ==
  ASSUME TypeOK, NEW b \in Book, NEW n \in BookRow, row' = [row EXCEPT ![b] = n]
  PROVE  /\ row' \in [Book -> {NoBook} \cup BookRow]
         /\ row'[b] = n
         /\ Published' = Published \cup {b}
         /\ \A o \in Book \ {b} : row'[o] = row[o]
<1>1. row \in [Book -> {NoBook} \cup BookRow]
  BY DEF TypeOK
<1>2. row'[b] = n /\ \A o \in Book \ {b} : row'[o] = row[o]
  BY <1>1
<1>3. row' \in [Book -> {NoBook} \cup BookRow]
  BY <1>1
<1>4. row'[b] # NoBook
  BY <1>2, BookIsNoRow
<1> QED
  BY <1>2, <1>3, <1>4 DEF Published

LEMMA RestGrows ==
  ASSUME TypeOK, Published \subseteq Published', todo' = todo
  PROVE  todo' \in Rest'
  BY DEF TypeOK, Rest

\* What a sweep does to the rows.
LEMMA SweepFacts ==
  ASSUME TypeOK, Promoted, SweepDiscounts
  PROVE  /\ row' \in [Book -> {NoBook} \cup BookRow]
         /\ Published' = Published
         /\ \A b \in Book :
              \/ row'[b] = row[b]
              \/ b \in Published /\ row'[b] = [row[b] EXCEPT !.discount = 0]
<1> DEFINE hit == {PromoBook[d] : d \in ended \cap running}
           swept == [b \in Book |-> IF b \in hit THEN [row[b] EXCEPT !.discount = 0]
                                   ELSE row[b]]
<1>1. row' = swept
  BY DEF SweepDiscounts
<1>2. hit \subseteq Published
  BY DEF Promoted
<1>3. ASSUME NEW b \in Book
      PROVE  \/ swept[b] = row[b] /\ b \notin hit
             \/ b \in Published /\ swept[b] = [row[b] EXCEPT !.discount = 0]
  BY <1>2, <1>3
<1> HIDE DEF hit
<1>4. ASSUME NEW b \in Published
      PROVE  [row[b] EXCEPT !.discount = 0] \in BookRow
  BY <1>4, RowIsBook, DiscountFacts
<1>5. ASSUME NEW b \in Book
      PROVE  /\ swept[b] \in {NoBook} \cup BookRow
             /\ swept[b] = NoBook <=> row[b] = NoBook
  <2>1. CASE swept[b] = row[b]
    BY <2>1 DEF TypeOK
  <2>2. CASE b \in Published /\ swept[b] = [row[b] EXCEPT !.discount = 0]
    <3>1. swept[b] \in BookRow
      BY <2>2, <1>4
    <3>2. row[b] # NoBook
      BY <2>2 DEF Published
    <3> QED
      BY <3>1, <3>2, BookIsNoRow
  <2> QED
    BY <1>3, <2>1, <2>2
<1>6. swept \in [Book -> {NoBook} \cup BookRow]
  BY <1>5
<1>7. \A b \in Book : row'[b] = swept[b]
  BY <1>1
<1> HIDE DEF swept
<1>8. Published' = Published
  BY <1>5, <1>7 DEF Published
<1> QED
  BY <1>1, <1>3, <1>6, <1>7, <1>8

\* Where a step leaves the rows: nothing of a book changes but what is named.
\* Each property of a row is a property of one of these.
RowStep(b) ==
  \/ b \in Published /\ row'[b] = row[b]
  \/ /\ row'[b] = [row[b] EXCEPT !.discount = 0] /\ b \in Published
  \/ /\ \E p \in Price, d \in Amount : row'[b] = FreshBook(p, d)
     /\ b \in stale' \/ (b \notin Published /\ stale' = stale)
     /\ reviews' = reviews /\ ratings' = ratings
  \/ /\ b \in Published
     /\ \E now \in BOOLEAN, how \in Ways :
          /\ now <=> how = "Available"
          /\ row'[b] = [row[b] EXCEPT !.active = now, !.availability = how]
  \/ /\ b \in Published
     /\ \E c \in Percent : row'[b] = [row[b] EXCEPT !.discount = row[b].price * c]
  \/ /\ b \in Published /\ todo = Recalc(b) /\ reviews' = reviews /\ ratings' = ratings
     /\ row'[b] = [row[b] EXCEPT !.rating = Summary(reviews[b], ratings[b])]
  \/ /\ b \in Published /\ todo = StorePath(b) /\ files' = files
     /\ row'[b] = [row[b] EXCEPT !.path = "Store"]

LEMMA RowSteps ==
  ASSUME CatalogInv, Kinds
  PROVE  /\ row' \in [Book -> {NoBook} \cup BookRow]
         /\ Published \subseteq Published'
         /\ \A b \in Published' : RowStep(b)
<1> DEFINE Goal == /\ row' \in [Book -> {NoBook} \cup BookRow]
                   /\ Published \subseteq Published'
                   /\ \A b \in Published' : RowStep(b)
<1> SUFFICES Goal
  OBVIOUS
<1>a. TypeOK /\ Promoted
  BY DEF CatalogInv
<1>b. ASSUME UNCHANGED row PROVE Goal
  BY <1>a, <1>b DEF TypeOK, Published, RowStep
<1>c. ASSUME NEW b \in Book, NEW n \in BookRow, row' = [row EXCEPT ![b] = n], RowStep(b)
      PROVE  Goal
  <2>1. /\ row' \in [Book -> {NoBook} \cup BookRow]
        /\ Published' = Published \cup {b}
        /\ \A o \in Book \ {b} : row'[o] = row[o]
    BY <1>a, <1>c, RowWritten
  <2>2. ASSUME NEW o \in Published', o # b PROVE RowStep(o)
    <3>1. o \in Published
      BY <2>1, <2>2
    <3>2. row'[o] = row[o]
      BY <2>1, <3>1, <2>2 DEF Published
    <3> QED
      BY <3>1, <3>2 DEF RowStep
  <2> QED
    BY <1>c, <2>1, <2>2
<1>d. ASSUME NEW b \in Published PROVE b \in Book /\ row[b] \in BookRow
  BY <1>a, RowIsBook
<1> HIDE DEF Goal
<1>1. ASSUME NEW b \in Book, NEW p \in Price, NEW d \in Amount,
             NEW gs \in SUBSET Genre,
             PublishBook(b, p, d, gs) \/ UpdateBook(b, p, d, gs)
      PROVE  Goal
  <2>1. row' = [row EXCEPT ![b] = FreshBook(p, d)]
        /\ reviews' = reviews /\ ratings' = ratings
    BY <1>1 DEF PublishBook, UpdateBook, InsertBook, WriteBook
  <2>2. b \in stale' \/ (b \notin Published /\ stale' = stale)
    BY <1>1 DEF PublishBook, UpdateBook, InsertBook, WriteBook
  <2>3. FreshBook(p, d) \in BookRow
    BY FreshFacts
  <2>4. row'[b] = FreshBook(p, d)
    BY <1>a, <2>1, <2>3, RowWritten
  <2>5. RowStep(b)
    BY <2>1, <2>2, <2>4 DEF RowStep
  <2> QED
    BY <1>c, <2>1, <2>3, <2>5
<1>2. ASSUME NEW b \in Published, NEW now \in BOOLEAN, NEW how \in Ways,
             now <=> how = "Available", SetAvailability(b, now, how)
      PROVE  Goal
  <2> DEFINE n == [row[b] EXCEPT !.active = now, !.availability = how]
  <2>1. row' = [row EXCEPT ![b] = n]
    BY <1>2 DEF SetAvailability
  <2>2. b \in Book /\ n \in BookRow
    BY <1>d, AvailabilityFacts
  <2>3. row'[b] = n
    BY <1>a, <2>1, <2>2, RowWritten
  <2>4. RowStep(b)
    BY <1>2, <2>3 DEF RowStep
  <2> HIDE DEF n
  <2> QED
    BY <1>c, <2>1, <2>2, <2>4
<1>3. ASSUME NEW b \in Published, NEW c \in Percent, ApplyTimedDiscount(b, c)
      PROVE  Goal
  <2> DEFINE n == [row[b] EXCEPT !.discount = row[b].price * c]
  <2>1. row' = [row EXCEPT ![b] = n]
    BY <1>3 DEF ApplyTimedDiscount
  <2>2. row[b].price * c \in Nat
    <3>1. row[b].price \in Nat
      BY <1>d DEF BookRow
    <3>2. c \in Nat
      BY CatalogAssumption
    <3> QED
      BY <3>1, <3>2
  <2>3. b \in Book /\ n \in BookRow
    BY <1>d, <2>2, DiscountFacts
  <2>4. row'[b] = n
    BY <1>a, <2>1, <2>3, RowWritten
  <2>5. RowStep(b)
    BY <1>3, <2>4 DEF RowStep
  <2> HIDE DEF n
  <2> QED
    BY <1>c, <2>1, <2>3, <2>5
<1>4. ASSUME NEW b \in Published, ClearDiscount(b) PROVE Goal
  <2> DEFINE n == [row[b] EXCEPT !.discount = 0]
  <2>1. row' = [row EXCEPT ![b] = n]
    BY <1>4 DEF ClearDiscount, WriteBook
  <2>2. b \in Book /\ n \in BookRow
    BY <1>d, DiscountFacts
  <2>3. row'[b] = n
    BY <1>a, <2>1, <2>2, RowWritten
  <2>4. RowStep(b)
    BY <1>4, <2>3 DEF RowStep
  <2> HIDE DEF n
  <2> QED
    BY <1>c, <2>1, <2>2, <2>4
<1>5. ASSUME NEW b \in Published, todo = Recalc(b), RecalculateBookRating PROVE Goal
  <2> DEFINE n == [row[b] EXCEPT !.rating = Summary(reviews[b], ratings[b])]
  <2>0. todo.book = b
    BY <1>5 DEF Recalc
  <2>1. row' = [row EXCEPT ![b] = n] /\ reviews' = reviews /\ ratings' = ratings
    BY <1>5, <2>0 DEF RecalculateBookRating
  <2>2. Summary(reviews[b], ratings[b]) \in [sum : Nat, count : Nat]
    BY SummaryType
  <2>3. b \in Book /\ n \in BookRow
    BY <1>d, <2>2, RatingFacts
  <2>4. row'[b] = n
    BY <1>a, <2>1, <2>3, RowWritten
  <2>5. RowStep(b)
    BY <1>5, <2>1, <2>4 DEF RowStep
  <2> HIDE DEF n
  <2> QED
    BY <1>c, <2>1, <2>3, <2>5
<1>6. ASSUME NEW b \in Published, todo = StorePath(b), UpdatePath PROVE Goal
  <2> DEFINE n == [row[b] EXCEPT !.path = "Store"]
  <2>0. todo.book = b
    BY <1>6 DEF StorePath
  <2>1. row' = [row EXCEPT ![b] = n] /\ files' = files
    BY <1>6, <2>0 DEF UpdatePath
  <2>2. b \in Book /\ n \in BookRow
    BY <1>d, PathFacts
  <2>3. row'[b] = n
    BY <1>a, <2>1, <2>2, RowWritten
  <2>4. RowStep(b)
    BY <1>6, <2>1, <2>3 DEF RowStep
  <2> HIDE DEF n
  <2> QED
    BY <1>c, <2>1, <2>2, <2>4
<1>7. CASE SweepDiscounts
  <2>1. /\ row' \in [Book -> {NoBook} \cup BookRow]
        /\ Published' = Published
        /\ \A b \in Book :
             \/ row'[b] = row[b]
             \/ b \in Published /\ row'[b] = [row[b] EXCEPT !.discount = 0]
    BY <1>7, <1>a, SweepFacts
  <2>2. ASSUME NEW b \in Published PROVE RowStep(b)
    <3>1. b \in Book
      BY DEF Published
    <3> QED
      BY <2>1, <3>1 DEF RowStep
  <2> QED
    BY <2>1, <2>2 DEF Goal
<1>8. ASSUME \/ \E b \in Published : UploadBookPdf(b)
             \/ \E b \in Published, r \in Reader, rev \in {NoReview} \cup Review :
                  Idle /\ WriteReview(b, r, rev)
             \/ \E b \in Published, r \in Reader, s \in Star :
                  Idle /\ WriteRating(b, r, s)
             \/ \E b \in Published, r \in Reader, rev \in Review : Remark(b, r, rev)
             \/ InsertGenre \/ DeactivatePromos \/ Crash
             \/ \E d \in Promo : PromotionEnds(d)
      PROVE  Goal
  <2>1. UNCHANGED row
    BY <1>8 DEF UploadBookPdf, WriteReview, WriteRating, Remark, InsertGenre,
                DeactivatePromos, Crash, PromotionEnds
  <2> QED
    BY <1>b, <2>1
<1> QED
  BY <1>1, <1>2, <1>3, <1>4, <1>5, <1>6, <1>7, <1>8, <1>d DEF Kinds

\* What is not a row of Books stays as it should.
Kept ==
  /\ genres' \in [Book -> SUBSET Genre] /\ asked' \in [Book -> SUBSET Genre]
  /\ files' \subseteq Published'
  /\ reviews' \in [Book -> [Reader -> {NoReview} \cup Review]]
  /\ ratings' \in [Book -> [Reader -> {0} \cup Star]]
  /\ ended' \subseteq Promo /\ running' \subseteq running /\ ended \subseteq ended'
  /\ \/ over' = over
     \/ over' = ended /\ running' = running \ ended
  /\ stale' \subseteq Book /\ torn' \subseteq Book /\ over' \subseteq Promo
  /\ \A b \in Book \ Published, r \in Reader :
       reviews'[b][r] = reviews[b][r] /\ ratings'[b][r] = ratings[b][r]
  /\ todo' \in Rest'

LEMMA OtherSteps == CatalogInv /\ Kinds => Kept
<1> SUFFICES ASSUME CatalogInv, Kinds PROVE Kept
  OBVIOUS
<1>0. TypeOK /\ Published \subseteq Published' /\ Published \subseteq Book
  BY RowSteps DEF CatalogInv, Published
<1> USE <1>0 DEF TypeOK, history
<1>1. /\ Nothing \in Rest' /\ EndPromos \in Rest'
      /\ \A b \in Published' : Recalc(b) \in Rest' /\ StorePath(b) \in Rest'
      /\ \A b \in Published', gs \in SUBSET Genre : AddGenres(b, gs) \in Rest'
  BY DEF Rest
<1>2. todo' = todo => todo' \in Rest'
  BY RestGrows
<1>3. ASSUME NEW b \in Book, b \in Published', NEW gs \in SUBSET Genre,
             SyncBookGenres(b, gs), stale' \subseteq Book,
             UNCHANGED <<files, reviews, ratings, ended, running, over>>
      PROVE  Kept
  BY <1>1, <1>3 DEF SyncBookGenres, Kept
<1>4. ASSUME NEW b \in Book, NEW p \in Price, NEW d \in Amount,
             NEW gs \in SUBSET Genre, PublishBook(b, p, d, gs)
      PROVE  Kept
  <2>1. row' = [row EXCEPT ![b] = FreshBook(p, d)]
    BY <1>4 DEF PublishBook, InsertBook
  <2>2. b \in Published'
    <3>1. FreshBook(p, d) \in BookRow
      BY FreshFacts
    <3>2. Published' = Published \cup {b}
      BY <2>1, <3>1, RowWritten
    <3> QED
      BY <3>2
  <2> QED
    BY <1>3, <1>4, <2>2 DEF PublishBook
<1>5. ASSUME NEW b \in Published, NEW p \in Price, NEW d \in Amount,
             NEW gs \in SUBSET Genre, UpdateBook(b, p, d, gs)
      PROVE  Kept
  BY <1>3, <1>5 DEF UpdateBook
<1>6. ASSUME NEW b \in Published, NEW now \in BOOLEAN, NEW how \in Ways,
             SetAvailability(b, now, how)
      PROVE  Kept
  BY <1>2, <1>6 DEF SetAvailability, Kept
<1>7. ASSUME NEW b \in Published, NEW c \in Percent, ApplyTimedDiscount(b, c)
      PROVE  Kept
  BY <1>2, <1>7 DEF ApplyTimedDiscount, Kept
<1>8. ASSUME NEW b \in Published, ClearDiscount(b) PROVE Kept
  <2>1. genres[b] \in SUBSET Genre /\ b \in Book /\ b \in Published'
    OBVIOUS
  <2> QED
    BY <1>3, <1>8, <2>1 DEF ClearDiscount
<1>9. ASSUME NEW b \in Published, UploadBookPdf(b) PROVE Kept
  BY <1>1, <1>9 DEF UploadBookPdf, SavePdf, Kept
<1>10. ASSUME NEW b \in Published, NEW r \in Reader, NEW rev \in {NoReview} \cup Review,
              reviews' = [reviews EXCEPT ![b][r] = rev]
       PROVE  /\ reviews' \in [Book -> [Reader -> {NoReview} \cup Review]]
              /\ \A o \in Book \ Published, q \in Reader : reviews'[o][q] = reviews[o][q]
  BY <1>10
<1>11. ASSUME NEW b \in Published, NEW r \in Reader, NEW rev \in {NoReview} \cup Review,
              WriteReview(b, r, rev)
       PROVE  Kept
  BY <1>1, <1>10, <1>11 DEF WriteReview, Kept
<1>12. ASSUME NEW b \in Published, NEW r \in Reader, NEW rev \in Review, Remark(b, r, rev)
       PROVE  Kept
  BY <1>2, <1>10, <1>12 DEF Remark, Kept
<1>13. ASSUME NEW b \in Published, NEW r \in Reader, NEW s \in Star, WriteRating(b, r, s)
       PROVE  Kept
  <2>1. /\ ratings' \in [Book -> [Reader -> {0} \cup Star]]
        /\ \A o \in Book \ Published, q \in Reader : ratings'[o][q] = ratings[o][q]
    BY <1>13 DEF WriteRating
  <2> QED
    BY <1>1, <1>13, <2>1 DEF WriteRating, Kept
<1>14. ASSUME NEW b \in Published, todo = Recalc(b), RecalculateBookRating PROVE Kept
  BY <1>1, <1>14 DEF RecalculateBookRating, Kept
<1>15. ASSUME NEW b \in Published, NEW gs \in SUBSET Genre, todo = AddGenres(b, gs),
              InsertGenre
       PROVE  Kept
  <2>1. todo.book = b /\ todo.left = gs
    BY <1>15 DEF AddGenres
  <2>2. genres' \in [Book -> SUBSET Genre] /\ todo' \in Rest'
    <3>1. CASE gs = {}
      BY <1>1, <1>15, <2>1, <3>1 DEF InsertGenre
    <3>2. CASE gs # {}
      <4>1. PICK g \in gs : /\ genres' = [genres EXCEPT ![b] = @ \cup {g}]
                            /\ todo' = AddGenres(b, gs \ {g})
        BY <1>15, <2>1, <3>2 DEF InsertGenre
      <4>2. gs \ {g} \in SUBSET Genre /\ b \in Published'
        OBVIOUS
      <4> QED
        BY <1>1, <4>1, <4>2
    <3> QED
      BY <3>1, <3>2
  <2> QED
    BY <1>15, <2>2 DEF InsertGenre, Kept
<1>16. ASSUME NEW b \in Published, todo = StorePath(b), UpdatePath PROVE Kept
  BY <1>1, <1>16 DEF UpdatePath, Kept
<1>17. CASE DeactivatePromos \/ SweepDiscounts
  BY <1>1, <1>17 DEF DeactivatePromos, SweepDiscounts, Kept
<1>18. CASE Crash
  <2>1. stale' \subseteq Book /\ torn' \subseteq Book
    <3>1. todo.do \in {"recalc", "genres"} => todo.book \in Book
      BY KindsOfTodo DEF Recalc, AddGenres
    <3> QED
      BY <1>18, <3>1 DEF Crash
  <2> QED
    BY <1>1, <1>18, <2>1 DEF Crash, Kept
<1>19. ASSUME NEW d \in Promo, PromotionEnds(d) PROVE Kept
  BY <1>2, <1>19 DEF PromotionEnds, Kept
<1> QED
  BY <1>4, <1>5, <1>6, <1>7, <1>8, <1>9, <1>11, <1>12, <1>13, <1>14, <1>15, <1>16,
     <1>17, <1>18, <1>19 DEF Kinds

LEMMA CatalogStep == CatalogInv /\ [Next]_vars => CatalogInv'
<1> SUFFICES ASSUME CatalogInv, [Next]_vars PROVE CatalogInv'
  OBVIOUS
<1>1. CASE Next
  <2>1. Kinds
    BY <1>1, NextKinds
  <2>2. row' \in [Book -> {NoBook} \cup BookRow] /\ Published \subseteq Published'
    BY <2>1, RowSteps
  <2>3. Kept
    BY <2>1, OtherSteps
  <2>4. TypeOK'
    BY <2>2, <2>3 DEF TypeOK, Kept, CatalogInv
  <2>5. Unwritten'
    BY <2>2, <2>3 DEF Unwritten, Kept, CatalogInv
  <2>6. Promoted'
    BY <2>2, <2>3 DEF Promoted, Kept, CatalogInv
  <2> QED
    BY <2>4, <2>5, <2>6 DEF CatalogInv
<1>2. CASE UNCHANGED vars
  BY <1>2 DEF CatalogInv, TypeOK, Rest, Published, Unwritten, Promoted, vars, history
<1> QED
  BY <1>1, <1>2

LEMMA InitCatalogInv == Init => CatalogInv
<1> SUFFICES ASSUME Init PROVE CatalogInv
  OBVIOUS
<1>0. PICK here \in {{}, Seeded} :
        /\ \E p \in [Book -> Price], d \in [Book -> Amount] :
             row = [b \in Book |-> IF b \in here THEN FreshBook(p[b], d[b]) ELSE NoBook]
        /\ genres \in [Book -> SUBSET Genre]
        /\ reviews \in [Book -> [Reader -> {NoReview} \cup {FreshReview(s) : s \in Star}]]
        /\ ratings \in [Book -> [Reader -> {0} \cup Star]]
        /\ \A b \in Book \ here :
             \A r \in Reader : reviews[b][r] = NoReview /\ ratings[b][r] = 0
        /\ running = {q \in Promo : PromoBook[q] \in here}
        /\ stale = here
  BY DEF Init
<1>1. PICK p \in [Book -> Price], d \in [Book -> Amount] :
        row = [b \in Book |-> IF b \in here THEN FreshBook(p[b], d[b]) ELSE NoBook]
  BY <1>0
<1>2. \A b \in Book : FreshBook(p[b], d[b]) \in BookRow
  BY <1>1, FreshFacts
<1>3. row \in [Book -> {NoBook} \cup BookRow]
  BY <1>1, <1>2
<1>4. Seeded \subseteq Book /\ here \subseteq Book
  BY CatalogAssumption, <1>0
<1>5. \A b \in Book : b \in Published <=> b \in here
  BY <1>1, <1>2, BookIsNoRow DEF Published
<1>6. TypeOK
  <2>1. reviews \in [Book -> [Reader -> {NoReview} \cup Review]]
    BY <1>0, FreshReviews
  <2> QED
    BY <1>0, <1>3, <1>4, <2>1 DEF TypeOK, Init, Rest
<1>7. Unwritten
  BY <1>0, <1>5 DEF Unwritten
<1>8. Promoted
  BY <1>0, <1>4, <1>5 DEF Promoted
<1> QED
  BY <1>6, <1>7, <1>8 DEF CatalogInv

\* The books there are at first are fresh, and their averages made up.
LEMMA InitRows ==
  ASSUME Init, NEW b \in Published
  PROVE  b \in stale /\ \E p \in Price, d \in Amount : row[b] = FreshBook(p, d)
<1>1. PICK here \in {{}, Seeded} :
        /\ \E p \in [Book -> Price], d \in [Book -> Amount] :
             row = [o \in Book |-> IF o \in here THEN FreshBook(p[o], d[o]) ELSE NoBook]
        /\ stale = here
  BY DEF Init
<1>2. PICK p \in [Book -> Price], d \in [Book -> Amount] :
        row = [o \in Book |-> IF o \in here THEN FreshBook(p[o], d[o]) ELSE NoBook]
  BY <1>1
<1>3. b \in Book /\ row[b] # NoBook
  BY DEF Published
<1>4. b \in here /\ row[b] = FreshBook(p[b], d[b])
  BY <1>2, <1>3
<1> QED
  BY <1>1, <1>3, <1>4

LEMMA CatalogAlways == Spec => []CatalogInv
<1> QED
  BY InitCatalogInv, CatalogStep, PTL DEF Spec

\* Every reachable state of Catalog is well typed: every column keeps its type
\* through every handler, statement, crash and sweep.
THEOREM TypeCorrect == Spec => []TypeOK
<1>1. CatalogInv => TypeOK
  BY DEF CatalogInv
<1> QED
  BY <1>1, CatalogAlways, PTL

-----------------------------------------------------------------------------
(* Properties of a row: RowStep says what becomes of it.                   *)

LEMMA RowsOf ==
  ASSUME CatalogInv, [Next]_vars
  PROVE  \A b \in Published' : RowStep(b)
  BY NextKinds, RowSteps DEF vars, Published, RowStep

LEMMA OldRow ==
  ASSUME CatalogInv, NEW b \in Published
  PROVE  b \in Book /\ row[b] \in BookRow
  BY RowIsBook DEF CatalogInv

LEMMA ListedStep == CatalogInv /\ ListedIffAvailable /\ [Next]_vars => ListedIffAvailable'
<1> SUFFICES ASSUME CatalogInv, ListedIffAvailable, [Next]_vars, NEW b \in Published'
             PROVE  row'[b].active <=> row'[b].availability = "Available"
  BY DEF ListedIffAvailable, Listed
<1> DEFINE Old == row[b].active <=> row[b].availability = "Available"
<1>1. ASSUME b \in Published PROVE Old /\ row[b] \in BookRow
  BY <1>1, OldRow DEF ListedIffAvailable, Listed
<1>2. CASE b \in Published /\ row'[b] = row[b]
  BY <1>1, <1>2
<1>3. CASE b \in Published /\ row'[b] = [row[b] EXCEPT !.discount = 0]
  BY <1>1, <1>3, DiscountFacts
<1>4. CASE \E p \in Price, d \in Amount : row'[b] = FreshBook(p, d)
  BY <1>4, FreshFacts
<1>5. ASSUME b \in Published, NEW now \in BOOLEAN, NEW how \in Ways,
             now <=> how = "Available",
             row'[b] = [row[b] EXCEPT !.active = now, !.availability = how]
      PROVE  row'[b].active <=> row'[b].availability = "Available"
  <2>1. row'[b].active = now /\ row'[b].availability = how
    BY <1>1, <1>5 DEF BookRow
  <2> QED
    BY <1>5, <2>1
<1>6. ASSUME b \in Published, NEW c \in Percent,
             row'[b] = [row[b] EXCEPT !.discount = row[b].price * c]
      PROVE  row'[b].active <=> row'[b].availability = "Available"
  <2>1. row'[b].active = row[b].active /\ row'[b].availability = row[b].availability
    BY <1>1, <1>6 DEF BookRow
  <2> QED
    BY <1>1, <1>6, <2>1
<1>7. ASSUME b \in Published, NEW x, row'[b] = [row[b] EXCEPT !.rating = x]
      PROVE  row'[b].active <=> row'[b].availability = "Available"
  <2>1. row'[b].active = row[b].active /\ row'[b].availability = row[b].availability
    BY <1>1, <1>7 DEF BookRow
  <2> QED
    BY <1>1, <1>7, <2>1
<1>8. CASE b \in Published /\ row'[b] = [row[b] EXCEPT !.path = "Store"]
  BY <1>1, <1>8, PathFacts
<1> QED
  BY <1>2, <1>3, <1>4, <1>5, <1>6, <1>7, <1>8, RowsOf DEF RowStep

\* Through every publication, update, switch by its publisher or a moderator,
\* and crash, a book is listed exactly while its page says it is available.
THEOREM ListedAreAvailable == Spec => []ListedIffAvailable
<1>1. Init => ListedIffAvailable
  <2> SUFFICES ASSUME Init, NEW b \in Published
               PROVE  row[b].active <=> row[b].availability = "Available"
    BY DEF ListedIffAvailable, Listed
  <2>1. PICK p \in Price, d \in Amount : row[b] = FreshBook(p, d)
    BY InitRows
  <2> QED
    BY <2>1, FreshFacts
<1> QED
  BY <1>1, CatalogAlways, ListedStep, PTL DEF Spec

-----------------------------------------------------------------------------
(* Promotions.                                                             *)

\* No promotion that was over when a sweep finished is still running.
SweptInv == over \subseteq ended /\ over \cap running = {}

LEMMA SweptStep == CatalogInv /\ SweptInv /\ [Next]_vars => SweptInv'
<1> SUFFICES ASSUME CatalogInv, SweptInv, [Next]_vars PROVE SweptInv'
  OBVIOUS
<1>1. CASE Next
  <2>1. Kept
    BY <1>1, NextKinds, OtherSteps
  <2> QED
    BY <2>1 DEF Kept, SweptInv
<1>2. CASE UNCHANGED vars
  BY <1>2 DEF SweptInv, vars, history
<1> QED
  BY <1>1, <1>2

\* A handler that has only the promotions left to mark is a sweep.
LEMMA SweepsOnly ==
  ASSUME CatalogInv, Kinds, Idle, todo' = EndPromos
  PROVE  SweepDiscounts
<1>1. /\ todo.do = "nothing" /\ todo'.do = "promos"
      /\ \A b : Recalc(b).do = "recalc" /\ StorePath(b).do = "path"
      /\ \A b, gs : AddGenres(b, gs).do = "genres"
      /\ Nothing.do = "nothing"
  BY DEF Idle, Nothing, EndPromos, Recalc, StorePath, AddGenres
<1>2. todo' # todo
  BY <1>1
<1>3. \A b, p, d, gs : ~ PublishBook(b, p, d, gs) /\ ~ UpdateBook(b, p, d, gs)
  BY <1>1 DEF PublishBook, UpdateBook, SyncBookGenres
<1>4. ASSUME NEW b, ClearDiscount(b) \/ UploadBookPdf(b) PROVE FALSE
  <2>1. todo' = AddGenres(b, genres[b]) \/ todo' = StorePath(b)
    BY <1>4 DEF ClearDiscount, SyncBookGenres, UploadBookPdf
  <2>2. AddGenres(b, genres[b]).do = "genres"
    BY DEF AddGenres
  <2> QED
    BY <1>1, <2>1, <2>2
<1>5. ~ \E b, r, x : WriteReview(b, r, x) \/ WriteRating(b, r, x)
  BY <1>1 DEF WriteReview, WriteRating
<1>6. /\ ~ \E b, now, how : SetAvailability(b, now, how)
      /\ ~ \E b, c : ApplyTimedDiscount(b, c)
      /\ ~ \E b, r, rev : Remark(b, r, rev)
      /\ ~ \E d : PromotionEnds(d)
  BY <1>2 DEF SetAvailability, ApplyTimedDiscount, Remark, PromotionEnds
<1>7. ~ (RecalculateBookRating \/ InsertGenre \/ UpdatePath \/ DeactivatePromos \/ Crash)
  BY <1>1 DEF RecalculateBookRating, InsertGenre, UpdatePath, DeactivatePromos, Crash, Idle,
              EndPromos
<1> QED
  BY <1>3, <1>4, <1>5, <1>6, <1>7 DEF Kinds

LEMMA SweptOnceStep ==
  ASSUME CatalogInv, SweptInv, [Next]_vars, Idle, todo' = EndPromos, NEW b \in Published
  PROVE  row'[b].discount = row[b].discount \/ \E d \in ended \ over : PromoBook[d] = b
<1>1. Next
  BY DEF vars, Idle, Nothing, EndPromos
<1>2. SweepDiscounts
  BY <1>1, NextKinds, SweepsOnly
<1>3. b \in Book
  BY DEF Published
<1>4. CASE b \in {PromoBook[d] : d \in ended \cap running}
  BY <1>4 DEF SweptInv
<1>5. CASE b \notin {PromoBook[d] : d \in ended \cap running}
  BY <1>2, <1>3, <1>5 DEF SweepDiscounts
<1> QED
  BY <1>4, <1>5

\* For any promotions and books, whatever crashes cut sweeps short: a sweep
\* takes no discount away for a promotion that was over when an earlier one
\* finished, so what is given to a book after that stays.
THEOREM SweptOnlyOnce == Spec => SweptOnce
<1>1. Init => SweptInv
  BY DEF Init, SweptInv
<1>2. CatalogInv /\ SweptInv /\ [Next]_vars =>
        [Idle /\ todo' = EndPromos =>
           \A b \in Published :
             \/ row'[b].discount = row[b].discount
             \/ \E d \in ended \ over : PromoBook[d] = b]_vars
  BY SweptOnceStep
<1> QED
  BY <1>1, <1>2, CatalogAlways, SweptStep, PTL DEF Spec, SweptOnce

-----------------------------------------------------------------------------
(* The file behind the column.                                             *)

\* While the column is still to be written the file is already there.
Saved == \A b \in Published : todo = StorePath(b) => b \in files

FilesInv == StoredPathHasFile /\ Saved

LEMMA TodosDiffer ==
  ASSUME NEW b, NEW gs, NEW o
  PROVE  /\ Nothing # StorePath(o) /\ EndPromos # StorePath(o)
         /\ Recalc(b) # StorePath(o) /\ AddGenres(b, gs) # StorePath(o)
         /\ Recalc(b) = Recalc(o) => b = o
         /\ StorePath(b) = StorePath(o) => b = o
<1>1. /\ Nothing.do = "nothing" /\ EndPromos.do = "promos" /\ Recalc(b).do = "recalc"
      /\ AddGenres(b, gs).do = "genres" /\ StorePath(o).do = "path"
  BY DEF Nothing, EndPromos, Recalc, AddGenres, StorePath
<1>2. /\ Recalc(b).book = b /\ Recalc(o).book = o
      /\ StorePath(b).book = b /\ StorePath(o).book = o
  BY DEF Recalc, StorePath
<1> QED
  BY <1>1, <1>2

\* Files are never removed, and only an upload leaves a column to be written.
LEMMA FileSteps ==
  ASSUME CatalogInv, Kinds
  PROVE  /\ files \subseteq files'
         /\ \A o : todo' = StorePath(o) => todo = StorePath(o) \/ o \in files'
<1> DEFINE Goal == /\ files \subseteq files'
                   /\ \A o : todo' = StorePath(o) => todo = StorePath(o) \/ o \in files'
<1> SUFFICES Goal
  OBVIOUS
<1>1. ASSUME files' = files, todo' = todo PROVE Goal
  BY <1>1
<1>2. ASSUME files' = files, todo' \in {Nothing, EndPromos} PROVE Goal
  BY <1>2, TodosDiffer
<1>3. ASSUME NEW b, NEW gs, SyncBookGenres(b, gs), files' = files PROVE Goal
  BY <1>3, TodosDiffer DEF SyncBookGenres
<1>4. ASSUME NEW b, files' = files, todo' = Recalc(b) PROVE Goal
  BY <1>4, TodosDiffer
<1>5. ASSUME NEW b \in Published, UploadBookPdf(b) PROVE Goal
  <2>1. files' = files \cup {b} /\ todo' = StorePath(b)
    BY <1>5 DEF UploadBookPdf, SavePdf
  <2> QED
    BY <2>1, TodosDiffer
<1>6. ASSUME NEW b \in Published, NEW gs \in SUBSET Genre, todo = AddGenres(b, gs),
             InsertGenre
      PROVE  Goal
  <2>1. todo' = Nothing \/ \E g : todo' = AddGenres(todo.book, todo.left \ {g})
    BY <1>6 DEF InsertGenre
  <2>2. files' = files
    BY <1>6 DEF InsertGenre
  <2>3. \A o : todo' # StorePath(o)
    <3>1. CASE todo' = Nothing
      BY <3>1, TodosDiffer
    <3>2. ASSUME NEW g, todo' = AddGenres(todo.book, todo.left \ {g})
          PROVE  \A o : todo' # StorePath(o)
      <4>1. todo'.do = "genres" /\ \A o : StorePath(o).do = "path"
        BY <3>2 DEF AddGenres, StorePath
      <4> QED
        BY <4>1
    <3> QED
      BY <2>1, <3>1, <3>2
  <2> QED
    BY <2>2, <2>3
<1>7. ASSUME \/ \E b \in Book, p \in Price, d \in Amount, gs \in SUBSET Genre :
                  PublishBook(b, p, d, gs) \/ UpdateBook(b, p, d, gs)
             \/ \E b \in Published : ClearDiscount(b)
      PROVE  Goal
  BY <1>3, <1>7 DEF PublishBook, UpdateBook, ClearDiscount
<1>8. ASSUME \/ \E b \in Published, r \in Reader, rev \in {NoReview} \cup Review :
                  WriteReview(b, r, rev)
             \/ \E b \in Published, r \in Reader, s \in Star : WriteRating(b, r, s)
      PROVE  Goal
  BY <1>4, <1>8 DEF WriteReview, WriteRating
<1>9. ASSUME \/ \E b \in Published, now \in BOOLEAN, how \in Ways :
                  SetAvailability(b, now, how)
             \/ \E b \in Published, c \in Percent : ApplyTimedDiscount(b, c)
             \/ \E b \in Published, r \in Reader, rev \in Review : Remark(b, r, rev)
             \/ \E d \in Promo : PromotionEnds(d)
      PROVE  Goal
  BY <1>1, <1>9 DEF SetAvailability, ApplyTimedDiscount, Remark, PromotionEnds
<1>10. CASE RecalculateBookRating \/ UpdatePath \/ DeactivatePromos \/ SweepDiscounts
            \/ Crash
  BY <1>2, <1>10 DEF RecalculateBookRating, UpdatePath, DeactivatePromos, SweepDiscounts,
                     Crash
<1> QED
  BY <1>5, <1>6, <1>7, <1>8, <1>9, <1>10, OldRow DEF Kinds

LEMMA PathStep == CatalogInv /\ FilesInv /\ [Next]_vars => FilesInv'
<1> SUFFICES ASSUME CatalogInv, FilesInv, [Next]_vars PROVE FilesInv'
  OBVIOUS
<1>1. /\ files \subseteq files'
      /\ \A o : todo' = StorePath(o) => todo = StorePath(o) \/ o \in files'
  <2>1. CASE Next
    BY <2>1, NextKinds, FileSteps
  <2>2. CASE UNCHANGED vars
    BY <2>2 DEF vars
  <2> QED
    BY <2>1, <2>2
<1>2. Saved'
  <2> SUFFICES ASSUME NEW o, o \in Published', todo' = StorePath(o) PROVE o \in files'
    BY DEF Saved
  <2>1. CASE o \in files'
    BY <2>1
  <2>2. CASE todo = StorePath(o)
    <3>1. todo.do = "path"
      BY <2>2 DEF StorePath
    <3>2. PICK b \in Published : todo = StorePath(b)
      BY <3>1, KindsOfTodo DEF CatalogInv
    <3> QED
      BY <1>1, <2>2, <3>2, TodosDiffer DEF FilesInv, Saved
  <2> QED
    BY <1>1, <2>1, <2>2
<1>3. ASSUME NEW b \in Published', row'[b].path = "Store" PROVE b \in files'
  <2>1. ASSUME b \in Published
        PROVE  row[b] \in BookRow /\ (row[b].path = "Store" => b \in files')
    BY <1>1, <2>1, OldRow DEF FilesInv, StoredPathHasFile, Downloadable
  <2>2. CASE b \in Published /\ row'[b] = row[b]
    BY <1>3, <2>1, <2>2
  <2>3. CASE b \in Published /\ row'[b] = [row[b] EXCEPT !.discount = 0]
    BY <1>3, <2>1, <2>3, DiscountFacts
  <2>4. CASE \E p \in Price, d \in Amount : row'[b] = FreshBook(p, d)
    BY <1>3, <2>4, FreshFacts
  <2>5. ASSUME b \in Published, NEW now, NEW how,
               row'[b] = [row[b] EXCEPT !.active = now, !.availability = how]
        PROVE  b \in files'
    <3>1. row'[b].path = row[b].path
      BY <2>1, <2>5 DEF BookRow
    <3> QED
      BY <1>3, <2>1, <2>5, <3>1
  <2>6. ASSUME b \in Published, NEW x, row'[b] = [row[b] EXCEPT !.discount = x]
        PROVE  b \in files'
    <3>1. row'[b].path = row[b].path
      BY <2>1, <2>6 DEF BookRow
    <3> QED
      BY <1>3, <2>1, <2>6, <3>1
  <2>7. ASSUME b \in Published, NEW x, row'[b] = [row[b] EXCEPT !.rating = x]
        PROVE  b \in files'
    <3>1. row'[b].path = row[b].path
      BY <2>1, <2>7 DEF BookRow
    <3> QED
      BY <1>3, <2>1, <2>7, <3>1
  <2>8. CASE b \in Published /\ todo = StorePath(b)
    BY <1>1, <2>8 DEF FilesInv, Saved
  <2> QED
    BY <2>2, <2>3, <2>4, <2>5, <2>6, <2>7, <2>8, RowsOf DEF RowStep
<1> QED
  BY <1>2, <1>3 DEF FilesInv, StoredPathHasFile, Downloadable

\* Wherever a crash cuts an upload short, and whatever updates come between, a
\* book whose column names the store's file has that file.
THEOREM StoredPathsHaveFiles == Spec => []StoredPathHasFile
<1>1. Init => FilesInv
  <2> SUFFICES ASSUME Init, NEW b \in Published PROVE row[b].path = "Own" /\ todo # StorePath(b)
    BY DEF FilesInv, StoredPathHasFile, Saved
  <2>0. PICK p \in Price, d \in Amount : row[b] = FreshBook(p, d)
    BY InitRows
  <2>1. row[b].path = "Own"
    BY <2>0, FreshFacts
  <2>2. Nothing # StorePath(b)
    BY TodosDiffer
  <2> QED
    BY <2>1, <2>2 DEF Init
<1>2. FilesInv => StoredPathHasFile
  BY DEF FilesInv
<1> QED
  BY <1>1, <1>2, CatalogAlways, PathStep, PTL DEF Spec

-----------------------------------------------------------------------------
(* Genres and summaries.                                                   *)

\* GenresKept is not inductive: while genres are being inserted, those there
\* and those left must make up what was asked for, even if the former do.
InGenres(b) == todo.do = "genres" /\ todo.book = b
GenresOf(b) ==
  \/ b \in torn
  \/ InGenres(b) /\ genres[b] \cup todo.left = asked[b]
  \/ ~ InGenres(b) /\ genres[b] = asked[b]

LEMMA IdleIsNothing ==
  ASSUME Idle
  PROVE  todo.do = "nothing" /\ \A b : todo # Recalc(b)
  BY DEF Idle, Nothing, Recalc

\* Deleting the genres of a book leaves the rest of what was asked for to do.
LEMMA SyncGenres ==
  ASSUME TypeOK, Idle, NEW b \in Book, NEW gs, SyncBookGenres(b, gs),
         \A o \in Book : GenresOf(o)
  PROVE  \A o \in Book : GenresOf(o)'
<1>1. /\ genres' = [genres EXCEPT ![b] = {}] /\ asked' = [asked EXCEPT ![b] = gs]
      /\ todo' = AddGenres(b, gs) /\ torn' = torn \ {b}
  BY DEF SyncBookGenres
<1>2. todo'.do = "genres" /\ todo'.book = b /\ todo'.left = gs
  BY <1>1 DEF AddGenres
<1>3. GenresOf(b)'
  <2>1. genres'[b] = {} /\ asked'[b] = gs
    BY <1>1 DEF TypeOK
  <2> QED
    BY <1>2, <2>1 DEF GenresOf, InGenres
<1>4. ASSUME NEW o \in Book, o # b PROVE GenresOf(o)'
  <2>1. o \in torn \/ genres[o] = asked[o]
    BY IdleIsNothing DEF GenresOf, InGenres
  <2>2. genres'[o] = genres[o] /\ asked'[o] = asked[o] /\ (o \in torn => o \in torn')
    BY <1>1, <1>4 DEF TypeOK
  <2>3. ~ InGenres(o)'
    BY <1>2, <1>4 DEF InGenres
  <2>4. o \in torn' \/ genres'[o] = asked'[o]
    BY <2>1, <2>2
  <2> QED
    BY <2>3, <2>4 DEF GenresOf
<1> QED
  BY <1>3, <1>4

LEMMA GenresStep ==
  ASSUME CatalogInv, Kinds, \A o \in Book : GenresOf(o)
  PROVE  \A o \in Book : GenresOf(o)'
<1> DEFINE Goal == \A o \in Book : GenresOf(o)'
<1> SUFFICES Goal
  OBVIOUS
<1>0. TypeOK /\ Published \subseteq Book
  BY DEF CatalogInv, Published
<1>1. ASSUME UNCHANGED <<genres, asked, torn>>,
             todo' = todo \/ (todo.do # "genres" /\ todo'.do # "genres")
      PROVE  Goal
  BY <1>1 DEF GenresOf, InGenres
<1>2. ASSUME NEW b \in Book, NEW gs, Idle, SyncBookGenres(b, gs) PROVE Goal
  BY <1>0, <1>2, SyncGenres
<1>3. ASSUME \/ \E b \in Book, p \in Price, d \in Amount, gs \in SUBSET Genre :
                  PublishBook(b, p, d, gs) \/ UpdateBook(b, p, d, gs)
             \/ \E b \in Published : ClearDiscount(b)
      PROVE  Goal
  BY <1>0, <1>2, <1>3 DEF PublishBook, UpdateBook, ClearDiscount
<1>4. ASSUME NEW b \in Published, NEW gs \in SUBSET Genre, todo = AddGenres(b, gs),
             InsertGenre
      PROVE  Goal
  <2>1. todo.do = "genres" /\ todo.book = b /\ todo.left = gs
    BY <1>4 DEF AddGenres
  <2>2. asked' = asked /\ torn' = torn
    BY <1>4 DEF InsertGenre, history
  <2>3. b \in torn \/ genres[b] \cup gs = asked[b]
    BY <1>0, <2>1 DEF GenresOf, InGenres
  <2>4. ASSUME NEW o \in Book, o # b PROVE o \in torn \/ genres[o] = asked[o]
    BY <2>1, <2>4 DEF GenresOf, InGenres
  <2>5. CASE gs = {}
    <3>1. genres' = genres
      BY <1>4, <2>1, <2>5 DEF InsertGenre
    <3>2. \A o \in Book : o \in torn \/ genres[o] = asked[o]
      BY <2>3, <2>4, <2>5
    <3>3. todo'.do # "genres"
      BY <1>4, <2>1, <2>5 DEF InsertGenre, Nothing
    <3> QED
      BY <2>2, <3>1, <3>2, <3>3 DEF GenresOf, InGenres
  <2>6. CASE gs # {}
    <3>1. PICK g \in gs : /\ genres' = [genres EXCEPT ![b] = @ \cup {g}]
                          /\ todo' = AddGenres(b, gs \ {g})
      BY <1>4, <2>1, <2>6 DEF InsertGenre
    <3>2. todo'.do = "genres" /\ todo'.book = b /\ todo'.left = gs \ {g}
      BY <3>1 DEF AddGenres
    <3>3. /\ genres'[b] = genres[b] \cup {g}
          /\ \A o \in Book : o # b => genres'[o] = genres[o]
      BY <1>0, <3>1 DEF TypeOK
    <3>4. genres'[b] \cup todo'.left = genres[b] \cup gs
      BY <3>2, <3>3
    <3> QED
      BY <2>2, <2>3, <2>4, <3>2, <3>3, <3>4 DEF GenresOf, InGenres
  <2> QED
    BY <2>5, <2>6
<1>5. CASE Crash
  <2>1. asked' = asked /\ genres' = genres
    BY <1>5 DEF Crash
  <2>2. CASE todo.do = "genres"
    <3>1. torn' = torn \cup {todo.book}
      BY <1>5, <2>2 DEF Crash
    <3>2. todo'.do # "genres"
      BY <1>5 DEF Crash, Nothing
    <3> QED
      BY <2>1, <3>1, <3>2 DEF GenresOf, InGenres
  <2>3. CASE todo.do # "genres"
    <3>1. torn' = torn /\ todo'.do # "genres"
      BY <1>5, <2>3 DEF Crash, Nothing
    <3> QED
      BY <1>1, <2>1, <2>3, <3>1
  <2> QED
    BY <2>2, <2>3
<1>6. ASSUME \/ \E b \in Published, now \in BOOLEAN, how \in Ways :
                  SetAvailability(b, now, how)
             \/ \E b \in Published, c \in Percent : ApplyTimedDiscount(b, c)
             \/ \E b \in Published, r \in Reader, rev \in Review : Remark(b, r, rev)
             \/ \E d \in Promo : PromotionEnds(d)
      PROVE  Goal
  BY <1>1, <1>6 DEF SetAvailability, ApplyTimedDiscount, Remark, PromotionEnds, history
<1>7. ASSUME \/ \E b \in Published : UploadBookPdf(b)
             \/ \E b \in Published, r \in Reader, rev \in {NoReview} \cup Review :
                  Idle /\ WriteReview(b, r, rev)
             \/ \E b \in Published, r \in Reader, s \in Star :
                  Idle /\ WriteRating(b, r, s)
             \/ SweepDiscounts
      PROVE  Goal
  <2>1. Idle /\ UNCHANGED <<genres, asked, torn>>
    BY <1>7 DEF UploadBookPdf, WriteReview, WriteRating, SweepDiscounts, history
  <2>2. todo.do # "genres"
    BY <2>1, IdleIsNothing
  <2>3. todo'.do # "genres"
    BY <1>7 DEF UploadBookPdf, WriteReview, WriteRating, SweepDiscounts, StorePath, Recalc,
                EndPromos
  <2> QED
    BY <1>1, <2>1, <2>2, <2>3
<1>8. CASE RecalculateBookRating \/ UpdatePath \/ DeactivatePromos
  <2>1. todo.do # "genres" /\ UNCHANGED <<genres, asked, torn>>
    BY <1>8 DEF RecalculateBookRating, UpdatePath, DeactivatePromos, EndPromos, history
  <2>2. todo'.do # "genres"
    BY <1>8 DEF RecalculateBookRating, UpdatePath, DeactivatePromos, Nothing
  <2> QED
    BY <1>1, <2>1, <2>2
<1> QED
  BY <1>0, <1>3, <1>4, <1>5, <1>6, <1>7, <1>8 DEF Kinds

\* The genres of a book are those last asked for, or a handler that is to add
\* the rest of them is running, or a crash stopped one in the middle.
THEOREM GenresAreKept == Spec => []GenresKept
<1> DEFINE I == \A o \in Book : GenresOf(o)
<1>1. Init => I
  BY DEF Init, GenresOf, InGenres, Nothing
<1>2. CatalogInv /\ I /\ [Next]_vars => I'
  <2> SUFFICES ASSUME CatalogInv, I, [Next]_vars PROVE I'
    OBVIOUS
  <2>1. CASE Next
    BY <2>1, NextKinds, GenresStep
  <2>2. CASE UNCHANGED vars
    BY <2>2 DEF GenresOf, InGenres, vars, history
  <2> QED
    BY <2>1, <2>2
<1>3. I => GenresKept
  BY DEF GenresKept, GenresOf, InGenres, Published
<1> HIDE DEF I
<1> QED
  BY <1>1, <1>2, <1>3, CatalogAlways, PTL DEF Spec

\* What the rows of Reviews and Ratings say of a book.
Told(b) == Summary(reviews[b], ratings[b])

\* The summary of such a book need not be what its rows say.
InDoubt(b) == b \in stale \/ todo = Recalc(b)

LEMMA NotRecalc ==
  ASSUME NEW b, NEW gs, NEW o
  PROVE  /\ Nothing # Recalc(o) /\ EndPromos # Recalc(o)
         /\ StorePath(b) # Recalc(o) /\ AddGenres(b, gs) # Recalc(o)
  BY DEF Nothing, EndPromos, StorePath, AddGenres, Recalc

\* Only a recalculation settles a summary in doubt, and it gets it right.
LEMMA DoubtStep ==
  ASSUME CatalogInv, Kinds, NEW o \in Published, InDoubt(o)
  PROVE  InDoubt(o)' \/ row'[o].rating = Told(o)'
<1> DEFINE Goal == InDoubt(o)' \/ row'[o].rating = Told(o)'
<1> SUFFICES Goal
  OBVIOUS
<1>1. ASSUME stale \subseteq stale', todo' = todo \/ todo # Recalc(o) PROVE Goal
  BY <1>1 DEF InDoubt
<1>2. ASSUME stale \subseteq stale', Idle PROVE Goal
  BY <1>1, <1>2, IdleIsNothing
<1>3. CASE Crash
  <2>1. todo = Recalc(o) => o \in stale'
    BY <1>3 DEF Crash, Recalc
  <2>2. stale \subseteq stale'
    BY <1>3 DEF Crash
  <2> QED
    BY <2>1, <2>2 DEF InDoubt
<1>4. ASSUME NEW b \in Published, todo = Recalc(b), RecalculateBookRating PROVE Goal
  <2> DEFINE x == Summary(reviews[b], ratings[b])
             n == [row[b] EXCEPT !.rating = x]
  <2>0. todo.book = b
    BY <1>4 DEF Recalc
  <2>1. /\ row' = [row EXCEPT ![b] = n] /\ stale' = stale \ {b}
        /\ reviews' = reviews /\ ratings' = ratings
    BY <1>4, <2>0 DEF RecalculateBookRating
  <2>2. CASE o = b
    <3>1. b \in Book /\ row[b] \in BookRow /\ x \in [sum : Nat, count : Nat]
      BY OldRow, SummaryType
    <3>2. n.rating = x
      BY <3>1 DEF BookRow
    <3>3. row'[b] = n
      BY <2>1, <3>1 DEF CatalogInv, TypeOK
    <3> QED
      BY <2>1, <2>2, <3>2, <3>3 DEF Told
  <2>3. CASE o # b
    <3>1. o \in stale
      BY <1>4, <2>3, TodosDiffer DEF InDoubt
    <3> QED
      BY <2>1, <2>3, <3>1 DEF InDoubt
  <2> QED
    BY <2>2, <2>3
<1>5. ASSUME \/ \E b \in Book, p \in Price, d \in Amount, gs \in SUBSET Genre :
                  PublishBook(b, p, d, gs) \/ UpdateBook(b, p, d, gs)
             \/ \E b \in Published : ClearDiscount(b) \/ UploadBookPdf(b)
             \/ \E b \in Published, r \in Reader, rev \in {NoReview} \cup Review :
                  Idle /\ WriteReview(b, r, rev)
             \/ \E b \in Published, r \in Reader, s \in Star :
                  Idle /\ WriteRating(b, r, s)
             \/ SweepDiscounts
      PROVE  Goal
  BY <1>2, <1>5 DEF PublishBook, UpdateBook, ClearDiscount, UploadBookPdf, WriteReview,
                    WriteRating, SweepDiscounts, history
<1>6. ASSUME \/ \E b \in Published, now \in BOOLEAN, how \in Ways :
                  SetAvailability(b, now, how)
             \/ \E b \in Published, c \in Percent : ApplyTimedDiscount(b, c)
             \/ \E b \in Published, r \in Reader, rev \in Review : Remark(b, r, rev)
             \/ \E d \in Promo : PromotionEnds(d)
      PROVE  Goal
  BY <1>1, <1>6 DEF SetAvailability, ApplyTimedDiscount, Remark, PromotionEnds, history
<1>7. ASSUME \/ \E b \in Published, gs \in SUBSET Genre : todo = AddGenres(b, gs) /\ InsertGenre
             \/ \E b \in Published : todo = StorePath(b) /\ UpdatePath
             \/ DeactivatePromos
      PROVE  Goal
  <2>1. stale' = stale
    BY <1>7 DEF InsertGenre, UpdatePath, DeactivatePromos, history
  <2>2. todo # Recalc(o)
    BY <1>7, NotRecalc DEF DeactivatePromos
  <2> QED
    BY <1>1, <2>1, <2>2
<1>8. Published \subseteq Book
  BY DEF Published
<1> QED
  BY <1>3, <1>4, <1>5, <1>6, <1>7, <1>8 DEF Kinds

\* What the rows say changes only with a recalculation to follow.
LEMMA ToldStep ==
  ASSUME CatalogInv, Kinds, NEW o \in Book
  PROVE  Told(o)' = Told(o) \/ todo' = Recalc(o)
<1> DEFINE Goal == Told(o)' = Told(o) \/ todo' = Recalc(o)
<1> SUFFICES Goal
  OBVIOUS
<1>0. TypeOK /\ Published \subseteq Book
  BY DEF CatalogInv, Published
<1>1. ASSUME UNCHANGED <<reviews, ratings>> PROVE Goal
  BY <1>1 DEF Told
<1>2. ASSUME NEW b \in Published, NEW r \in Reader, NEW rev \in {NoReview} \cup Review,
             WriteReview(b, r, rev)
      PROVE  Goal
  <2>1. b # o => reviews'[o] = reviews[o] /\ ratings' = ratings
    BY <1>0, <1>2 DEF WriteReview, TypeOK
  <2> QED
    BY <1>2, <2>1 DEF WriteReview, Told
<1>3. ASSUME NEW b \in Published, NEW r \in Reader, NEW s \in Star, WriteRating(b, r, s)
      PROVE  Goal
  <2>1. b # o => ratings'[o] = ratings[o] /\ reviews' = reviews
    BY <1>0, <1>3 DEF WriteRating, TypeOK
  <2> QED
    BY <1>3, <2>1 DEF WriteRating, Told
<1>4. ASSUME NEW b \in Published, NEW r \in Reader, NEW rev \in Review, Remark(b, r, rev)
      PROVE  Goal
  <2>1. \A q \in Reader : reviews'[o][q].stars = reviews[o][q].stars
    BY <1>0, <1>4 DEF Remark, TypeOK
  <2>2. ratings' = ratings
    BY <1>4 DEF Remark
  <2>3. Summary(reviews'[o], ratings[o]) = Summary(reviews[o], ratings[o])
    BY <2>1, SameStars
  <2> QED
    BY <2>2, <2>3 DEF Told
<1>5. ASSUME \/ \E b \in Book, p \in Price, d \in Amount, gs \in SUBSET Genre :
                  PublishBook(b, p, d, gs) \/ UpdateBook(b, p, d, gs)
             \/ \E b \in Published : ClearDiscount(b) \/ UploadBookPdf(b)
             \/ \E b \in Published, now \in BOOLEAN, how \in Ways :
                  SetAvailability(b, now, how)
             \/ \E b \in Published, c \in Percent : ApplyTimedDiscount(b, c)
      PROVE  Goal
  BY <1>1, <1>5 DEF PublishBook, UpdateBook, ClearDiscount, UploadBookPdf, SetAvailability,
                    ApplyTimedDiscount
<1>6. ASSUME \/ RecalculateBookRating \/ InsertGenre \/ UpdatePath \/ DeactivatePromos
             \/ SweepDiscounts \/ Crash
             \/ \E d \in Promo : PromotionEnds(d)
      PROVE  Goal
  BY <1>1, <1>6 DEF RecalculateBookRating, InsertGenre, UpdatePath, DeactivatePromos,
                    SweepDiscounts, Crash, PromotionEnds
<1> QED
  BY <1>0, <1>2, <1>3, <1>4, <1>5, <1>6 DEF Kinds

LEMMA SummaryStep ==
  ASSUME CatalogInv, RatingsSummarised, Kinds
  PROVE  RatingsSummarised'
<1> DEFINE Fine(b) == InDoubt(b) \/ row[b].rating = Told(b)
<1>1. ASSUME NEW b \in Published' PROVE Fine(b)'
  <2>0. RowStep(b) /\ b \in Book
    BY <1>1, RowSteps DEF Published
  <2>1. CASE b \in Published /\ InDoubt(b)
    BY <2>1, DoubtStep
  <2>2. CASE b \in Published /\ ~ InDoubt(b)
    <3>1. row[b].rating = Told(b) /\ row[b] \in BookRow
      BY <2>2, OldRow DEF RatingsSummarised, InDoubt, Told
    <3>2. ASSUME row'[b].rating = row[b].rating PROVE Fine(b)'
      BY <2>0, <3>1, <3>2, ToldStep DEF InDoubt
    <3>3. CASE row'[b] = [row[b] EXCEPT !.discount = 0]
      BY <3>1, <3>2, <3>3 DEF BookRow
    <3>4. ASSUME NEW now, NEW how,
                 row'[b] = [row[b] EXCEPT !.active = now, !.availability = how]
          PROVE  Fine(b)'
      BY <3>1, <3>2, <3>4 DEF BookRow
    <3>5. ASSUME NEW x, row'[b] = [row[b] EXCEPT !.discount = x] PROVE Fine(b)'
      BY <3>1, <3>2, <3>5 DEF BookRow
    <3>6. CASE row'[b] = [row[b] EXCEPT !.path = "Store"]
      BY <3>1, <3>2, <3>6 DEF BookRow
    <3>7. CASE b \in stale'
      BY <3>7 DEF InDoubt
    <3> QED
      BY <2>0, <2>2, <3>2, <3>3, <3>4, <3>5, <3>6, <3>7 DEF RowStep, InDoubt
  <2>3. CASE b \notin Published
    <3>1. /\ \E p \in Price, d \in Amount : row'[b] = FreshBook(p, d)
          /\ b \in stale' \/ (reviews' = reviews /\ ratings' = ratings)
      BY <2>0, <2>3 DEF RowStep
    <3>2. row'[b].rating = EmptySummary
      BY <3>1, FreshFacts
    <3>3. \A r \in Reader : reviews[b][r] = NoReview /\ ratings[b][r] = 0
      BY <2>0, <2>3 DEF CatalogInv, Unwritten
    <3>4. Summary(reviews[b], ratings[b]) = EmptySummary
      BY <3>3, NoSummary
    <3> QED
      BY <3>1, <3>2, <3>4 DEF InDoubt, Told
  <2> QED
    BY <2>1, <2>2, <2>3
<1> QED
  BY <1>1 DEF RatingsSummarised, InDoubt, Told

\* For any readers and stars, the average and count a book carries are those
\* of the reviews and ratings stored, except while they are recalculated and
\* after a crash at that point or an update by the book's owner.
THEOREM RatingsAreSummarised == Spec => []RatingsSummarised
<1>1. Init => RatingsSummarised
  <2> SUFFICES ASSUME Init, NEW b \in Published, b \notin stale
               PROVE  FALSE
    BY DEF RatingsSummarised
  <2> QED
    BY InitRows
<1>2. CatalogInv /\ RatingsSummarised /\ [Next]_vars => RatingsSummarised'
  <2> SUFFICES ASSUME CatalogInv, RatingsSummarised, [Next]_vars PROVE RatingsSummarised'
    OBVIOUS
  <2>1. CASE Next
    BY <2>1, NextKinds, SummaryStep
  <2>2. CASE UNCHANGED vars
    BY <2>2 DEF RatingsSummarised, Published, vars, history
  <2> QED
    BY <2>1, <2>2
<1> QED
  BY <1>1, <1>2, CatalogAlways, PTL DEF Spec

=============================================================================
