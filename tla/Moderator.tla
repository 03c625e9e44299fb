------------------------------ MODULE Moderator ------------------------------
(***************************************************************************)
(* The administrator's lists of users, books and reviews: AdminService,    *)
(* which keeps them until it knows them to be out of date, and the handlers *)
(* behind it.                                                              *)
(***************************************************************************)
EXTENDS Waits

CONSTANT Books

\* A list of the books is finite. The names of the lists are no books.
ASSUME ModeratorAssumption ==
  IsFiniteSet(Books) /\ Books \cap {"users", "books", "opinions"} = {}

VARIABLES
  status,      \* the account of the user in question
  on,          \* books that are active
  reviewed,    \* how often the reviews have been changed
  people,      \* m_usersCache and its dirty flag
  catalog,     \* m_booksCache and its dirty flag
  perBook,     \* m_reviewsCache: a book's reviews
  opinions,    \* m_allReviewsCache and m_reviewsCacheDirty
  moved        \* history: lists known to be off, see ListsAgree

accounts == <<status, on, reviewed>>
lists == <<people, catalog, perBook, opinions>>
moderatorVars == <<accounts, lists, moved>>

-----------------------------------------------------------------------------
Blank == "blank"       \* a list without the user
NotKept == -1          \* nothing is kept of the book's reviews
NoReviews == 0         \* an empty list is
Keep(x) == [list |-> x, dirty |-> FALSE]

ModeratorInit ==
  /\ status \in {"active", "pending"} /\ on = Books /\ reviewed = 1
  /\ people = [list |-> Blank, dirty |-> TRUE]
  /\ catalog = [list |-> {}, dirty |-> TRUE]
  /\ perBook = [b \in Books |-> NotKept]
  /\ opinions = [list |-> {}, dirty |-> TRUE]
  /\ moved = {}

\* Replies that have come, and lists being put together, are no longer what the
\* server has.
Overtaken(s) ==
  [i \in DOMAIN s |-> IF s[i].got # None \/ s[i].op = "opinions"
                      THEN [s[i] EXCEPT !.old = TRUE] ELSE s[i]]

\* A list is stored that is old or not.
Stored(name, old) == moved' = IF old THEN moved \cup {name} ELSE moved \ {name}

-----------------------------------------------------------------------------
(* The server: AdminRequestHandler and what else the lists come from. A     *)
(* change nobody waits for any more is a change made elsewhere.             *)

Changed(names) ==
  /\ moved' = IF Late THEN moved \cup names ELSE moved
  /\ ReplyTo(Overtaken(stack), Ok(0))

HandleGetUsersList == Asked("users") /\ Answer(status) /\ UNCHANGED moderatorVars
HandleAllBooks == Asked("books") /\ Answer(on) /\ UNCHANGED moderatorVars
HandleReviews == Asked("reviews") /\ Answer(reviewed) /\ UNCHANGED moderatorVars

\* Whatever the account's status is.
HandleUser(do, as) ==
  /\ Asked(do) /\ UNCHANGED <<on, reviewed, lists>>
  /\ IF session THEN status' = as /\ Changed({"users"})
     ELSE Refuse /\ UNCHANGED <<status, moved>>

HandleBlockUser == HandleUser("block", "blocked")
HandleUnblockUser == HandleUser("unblock", "active")
HandleDeleteUser == HandleUser("delete", "deleted")

HandleBook(do, becomes) ==
  /\ Asked(do) /\ UNCHANGED <<status, reviewed, lists>>
  /\ IF session THEN on' = becomes /\ Changed({"books", "opinions"})
     ELSE Refuse /\ UNCHANGED <<on, moved>>

HandleModerateBook == HandleBook("moderate", IF Arg.active THEN on \cup {Arg.book}
                                             ELSE on \ {Arg.book})
HandleRemoveBookByAdmin == HandleBook("remove", on \ {Arg.book})

\* UpdateBook: the book is a publisher's.
HandleEditBook == Asked("edit") /\ Refuse /\ UNCHANGED moderatorVars

\* Another administrator, a publisher, a reader.
OthersModerate ==
  /\ Elsewhere(Overtaken(stack)) /\ UNCHANGED lists
  /\ \/ \E s \in {"active", "blocked"} \ {status} :
          status' = s /\ moved' = moved \cup {"users"} /\ UNCHANGED <<on, reviewed>>
     \/ \E b \in Books :
          /\ on' = (on \ {b}) \cup ({b} \ on)
          /\ moved' = moved \cup {"books", "opinions"} /\ UNCHANGED <<status, reviewed>>
     \/ /\ reviewed' = reviewed + 1
        /\ moved' = moved \cup {"opinions"} \cup Books /\ UNCHANGED <<status, on>>

-----------------------------------------------------------------------------
(* Users.                                                                  *)

\* users(): the flag is cleared before the request.
AskUsers(then) ==
  /\ people.dirty /\ people' = [people EXCEPT !.dirty = FALSE]
  /\ Send("users", "users", [then |-> then])
  /\ UNCHANGED <<accounts, catalog, perBook, opinions, moved>>

ReadUsers == Reading /\ AskUsers("")

\* blockUser, unblockUser, deleteUser find the user in the list first.
ChangeUser(do) ==
  /\ Command
  /\ \/ AskUsers(do)
     \/ /\ ~ people.dirty /\ people.list # Blank
        /\ Send("change", do, <<>>) /\ UNCHANGED moderatorVars

UsersReturn ==
  /\ Returned("users") /\ UNCHANGED <<accounts, catalog, perBook, opinions>>
  /\ IF Worked THEN people' = [people EXCEPT !.list = Got] /\ Stored("users", Innermost.old)
     ELSE people' = [people EXCEPT !.dirty = TRUE] /\ UNCHANGED moved
  /\ IF Innermost.arg.then # "" /\ people'.list # Blank
     THEN SendNext("change", Innermost.arg.then, <<>>, FALSE)
     ELSE Ends(FALSE)

\* The list is emptied, whatever the reply, and is not dirty for that.
ChangeReturns ==
  /\ Returned("change") /\ Ends(TRUE)
  /\ people' = [people EXCEPT !.list = Blank]
  /\ UNCHANGED <<accounts, catalog, perBook, opinions, moved>>

-----------------------------------------------------------------------------
(* Books.                                                                  *)

\* allBooks()
ReadBooks ==
  /\ Reading /\ catalog.dirty /\ catalog' = [catalog EXCEPT !.dirty = FALSE]
  /\ Send("books", "books", <<>>)
  /\ UNCHANGED <<accounts, people, perBook, opinions, moved>>

BooksKept ==
  IF Worked THEN catalog' = [catalog EXCEPT !.list = Got] /\ Stored("books", Innermost.old)
  ELSE catalog' = [list |-> {}, dirty |-> TRUE] /\ UNCHANGED moved

BooksReturn ==
  /\ Returned("books") /\ Ends(FALSE) /\ BooksKept
  /\ UNCHANGED <<accounts, people, perBook, opinions>>

Forget ==
  /\ catalog' = [catalog EXCEPT !.dirty = TRUE]
  /\ opinions' = [opinions EXCEPT !.dirty = TRUE]
  /\ perBook' = [b \in Books |-> NotKept]

\* deleteBook forgets first and asks then.
DeleteBook(b) ==
  /\ Command /\ Forget /\ Send("remove", "remove", [book |-> b])
  /\ UNCHANGED <<accounts, people, moved>>

RemoveReturns == Returned("remove") /\ Ends(Worked) /\ UNCHANGED moderatorVars

\* setBookStatus, approveBook, rejectBook
SetBookStatus(b, active) ==
  /\ Command /\ Send("moderate", "moderate", [book |-> b, active |-> active])
  /\ UNCHANGED moderatorVars

ModerateReturnsForgettingBooks ==
  /\ Returned("moderate") /\ Ends(Worked)
  /\ IF Worked THEN catalog' = [catalog EXCEPT !.dirty = TRUE] ELSE UNCHANGED catalog
  /\ UNCHANGED <<accounts, people, perBook, opinions, moved>>

ModerateReturns ==
  /\ Returned("moderate") /\ Ends(Worked)
  /\ IF Worked THEN Forget ELSE UNCHANGED <<catalog, opinions, perBook>>
  /\ UNCHANGED <<accounts, people, moved>>

\* updateBookInfo
UpdateBookInfo(b) ==
  /\ Command /\ Send("edit", "edit", [book |-> b]) /\ UNCHANGED moderatorVars

EditReturns ==
  /\ Returned("edit") /\ Ends(Worked)
  /\ catalog' = [catalog EXCEPT !.dirty = @ \/ Worked]
  /\ UNCHANGED <<accounts, people, perBook, opinions, moved>>

-----------------------------------------------------------------------------
(* Reviews: those of every listed book, asked for one by one.              *)

\* bookDetails asks always, reviewsForBook if nothing is kept.
ShowBook(op, b) ==
  /\ Reading /\ (op = "reviews" => perBook[b] = NotKept)
  /\ Send(op, "reviews", [book |-> b]) /\ UNCHANGED moderatorVars

\* reviewsForBook keeps an empty list when it fails.
ShowReturns(op) ==
  /\ Returned(op) /\ Ends(FALSE)
  /\ LET b == Innermost.arg.book
     IN IF Worked THEN perBook' = [perBook EXCEPT ![b] = Got] /\ Stored(b, Innermost.old)
        ELSE /\ perBook' = IF op = "reviews" THEN [perBook EXCEPT ![b] = NoReviews]
                           ELSE perBook
             /\ UNCHANGED moved
  /\ UNCHANGED <<accounts, people, catalog, opinions>>

\* Of the books left, those before the n-th are read from what is kept.
NextAsked(left, kept) == SelectInSeq(left, LAMBDA b : kept[b] = NotKept)
Before(left, n) == IF n = 0 THEN ToSet(left) ELSE ToSet(SubSeq(left, 1, n - 1))
Entries(books, kept) == {<<b, kept[b]>> : b \in books}
After(left, n) == SubSeq(left, n + 1, Len(left))

\* allReviews()
ReadOpinions ==
  /\ Reading /\ opinions.dirty /\ UNCHANGED <<accounts, people, perBook>>
  /\ IF catalog.dirty
     THEN /\ Send("opinions", "books", [left |-> <<>>, out |-> {}])
          /\ catalog' = [catalog EXCEPT !.dirty = FALSE]
          /\ opinions' = [opinions EXCEPT !.dirty = FALSE] /\ UNCHANGED moved
     ELSE LET left == SetToSeq(catalog.list)
              n == NextAsked(left, perBook)
              out == Entries(Before(left, n), perBook)
              old == "books" \in moved \/ Before(left, n) \cap moved # {}
                     \/ \E i \in DOMAIN stack : stack[i].do = "books"
          IN /\ UNCHANGED catalog
             /\ IF n = 0
                THEN /\ opinions' = Keep(out) /\ Stored("opinions", old)
                     /\ hot' = FALSE /\ Idle
                ELSE /\ opinions' = [opinions EXCEPT !.dirty = FALSE] /\ UNCHANGED moved
                     /\ Shallow
                     /\ SendOn(stack, "opinions", "reviews",
                               [book |-> left[n], left |-> After(left, n), out |-> out], old)

\* The loop goes on over the books left.
Collect(left, out, old, kept, off) ==
  LET n == NextAsked(left, kept)
      more == out \cup Entries(Before(left, n), kept)
      stale == old \/ Before(left, n) \cap off # {}
  IN IF n = 0
     THEN /\ Ends(FALSE) /\ opinions' = [opinions EXCEPT !.list = more]
          /\ moved' = IF stale THEN off \cup {"opinions"} ELSE off \ {"opinions"}
     ELSE /\ SendNext("opinions", "reviews",
                      [book |-> left[n], left |-> After(left, n), out |-> more], stale)
          /\ moved' = off /\ UNCHANGED opinions

OpinionsReturn ==
  /\ Returned("opinions") /\ UNCHANGED <<accounts, people>>
  /\ LET Off(name) == IF ~ Worked THEN moved
                      ELSE IF Innermost.old THEN moved \cup {name} ELSE moved \ {name}
         b == Innermost.arg.book
         kept == [perBook EXCEPT ![b] = IF Worked THEN Got ELSE NoReviews]
     IN \/ /\ Innermost.do = "books" /\ UNCHANGED perBook
           /\ catalog' = IF Worked THEN [catalog EXCEPT !.list = Got]
                         ELSE [list |-> {}, dirty |-> TRUE]
           /\ Collect(SetToSeq(catalog'.list), {}, Innermost.old, perBook, Off("books"))
        \/ /\ Innermost.do = "reviews" /\ perBook' = kept /\ UNCHANGED catalog
           /\ Collect(Innermost.arg.left, Innermost.arg.out \cup {<<b, kept[b]>>},
                      Innermost.old, kept, Off(b))

\* AdminService::refresh, as far as the lists go.
RefreshLists ==
  /\ Forget /\ people' = [people EXCEPT !.dirty = TRUE]
  /\ moved' = {} /\ UNCHANGED accounts

\* Sales, revenue and rankings are worked out from the lists at every reading.
ReadFigures == ReadUsers \/ ReadBooks

-----------------------------------------------------------------------------
ModeratorClient ==
  \/ ReadFigures \/ UsersReturn \/ ChangeReturns
  \/ \E do \in {"block", "unblock", "delete"} : ChangeUser(do)
  \/ BooksReturn \/ RemoveReturns \/ ModerateReturns \/ EditReturns
  \/ \E b \in Books :
       \/ DeleteBook(b) \/ UpdateBookInfo(b)
       \/ \E active \in BOOLEAN : SetBookStatus(b, active)
       \/ \E op \in {"reviews", "details"} : ShowBook(op, b)
  \/ \E op \in {"reviews", "details"} : ShowReturns(op)
  \/ ReadOpinions \/ OpinionsReturn

ModeratorServer ==
  \/ HandleGetUsersList \/ HandleBlockUser \/ HandleUnblockUser \/ HandleDeleteUser
  \/ HandleAllBooks \/ HandleModerateBook \/ HandleRemoveBookByAdmin \/ HandleEditBook
  \/ HandleReviews \/ OthersModerate

-----------------------------------------------------------------------------
UsersAgree == people.dirty \/ people.list \in {Blank, status} \/ "users" \in moved
BooksAgree == catalog.dirty \/ catalog.list = on \/ "books" \in moved
OpinionsAgree ==
  \/ opinions.dirty \/ "opinions" \in moved
  \/ \A r \in opinions.list : r[1] \in on /\ r[2] \in {NoReviews, reviewed}

\* Once nothing is under way, a list AdminService holds to be up to date shows no
\* user, book or review otherwise than the server has it, whatever commands
\* overlapped. It may be off since somebody else changed the server or the
\* client gave up a command, or when an older reply was stored last; a refresh
\* sets it right.
ListsAgree == AtRest => UsersAgree /\ BooksAgree /\ OpinionsAgree
=============================================================================
