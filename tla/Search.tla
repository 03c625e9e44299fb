-------------------------------- MODULE Search --------------------------------
(***************************************************************************)
(* The search page: SearchViewModel, whose criteria may change at any time *)
(* while a search is scheduled, started or waiting, and BookService::search. *)
(***************************************************************************)
EXTENDS Waits

CONSTANTS
  Queries,     \* what is sent with the search: the words, the field
  Genres,      \* what is applied when the results have come: genres, filters
  Unfiltered,  \* the criteria of an empty page
  Nothing      \* no results

ASSUME SearchAssumption == Unfiltered \in [query : Queries, genre : Genres]

VARIABLES
  crit,        \* m_query and m_selectedGenres, and what they stand for
  debounce,    \* m_debounceTimer runs
  busy,        \* m_isBusy: "no", "timer" while it is to start, "run" while it waits
  searching,   \* m_isSearching
  searched,    \* m_hasSearched
  found,       \* m_results, by the criteria they were found with
  known,       \* BookService knows the books on the wishlist and those bought
  skipped      \* history: a search was asked for while one was waiting

searchVars == <<crit, debounce, busy, searching, searched, found, known, skipped>>
page == <<searched, searching, busy, found>>

-----------------------------------------------------------------------------
SearchInit ==
  /\ crit = Unfiltered /\ found = Nothing /\ busy = "no"
  /\ debounce = FALSE /\ searching = FALSE /\ searched = FALSE
  /\ known = FALSE /\ skipped = FALSE

(* The server: BookRequestHandler, LibraryRequestHandler.                  *)

HandleSearchBooks == Asked("search") /\ ReplyTo(stack, Ok(Arg)) /\ UNCHANGED searchVars
HandleOwned == Asked("owned") /\ Answer(0) /\ UNCHANGED searchVars

-----------------------------------------------------------------------------
(* The page.                                                               *)

Quietly == hot' = FALSE /\ Idle

SetQuery(q) ==
  /\ Dispatching /\ q # crit.query /\ crit' = [crit EXCEPT !.query = q]
  /\ debounce' = TRUE /\ Quietly /\ UNCHANGED <<page, known, skipped, calls>>

ToggleGenreSilently(g) ==
  /\ Dispatching /\ g # crit.genre /\ crit' = [crit EXCEPT !.genre = g]
  /\ Quietly /\ UNCHANGED <<debounce, page, known, skipped, calls>>

ToggleGenre(g) ==
  /\ Dispatching /\ g # crit.genre /\ crit' = [crit EXCEPT !.genre = g]
  /\ debounce' = TRUE /\ Quietly /\ UNCHANGED <<page, known, skipped, calls>>

ClearFilters ==
  /\ Dispatching /\ crit' = Unfiltered /\ debounce' = TRUE
  /\ Quietly /\ UNCHANGED <<page, known, skipped, calls>>

\* search() changes nothing but the flags if one is under way.
Start ==
  /\ Command /\ searched' = TRUE /\ searching' = TRUE
  /\ busy' = IF busy = "no" THEN "timer" ELSE busy
  /\ skipped' = (busy = "run") /\ Quietly /\ UNCHANGED <<found, known>>

DebounceFires == debounce /\ debounce' = FALSE /\ Start /\ UNCHANGED crit
SearchNow == Start /\ UNCHANGED <<crit, debounce>>

SelectSuggestion(q) ==
  /\ crit' = [crit EXCEPT !.query = q]
  /\ debounce' = (debounce \/ q # crit.query) /\ Start

\* onAsyncReady, up to the request.
OnAsyncReady ==
  /\ Dispatching /\ busy = "timer" /\ busy' = "run" /\ found' = Nothing
  /\ Send("search", "search", [query |-> crit.query]) /\ UNCHANGED calls
  /\ UNCHANGED <<crit, debounce, searching, searched, known, skipped>>

\* The genres are those of now.
Show(results) ==
  /\ found' = results /\ searching' = FALSE /\ busy' = "no" /\ Ends(TRUE)
  /\ UNCHANGED <<crit, debounce, searched, skipped>>

SearchReturns ==
  /\ Returned("search") /\ UNCHANGED known
  /\ IF Worked /\ ~ known
     THEN SendNext("parse", "owned", [query |-> Got.query, again |-> TRUE], FALSE)
          /\ UNCHANGED searchVars
     ELSE Show(IF Worked THEN [query |-> Got.query, genre |-> crit.genre] ELSE Nothing)

\* parseBookList asks for the wishlist and again for the purchases, if need be.
ResultsParsed ==
  /\ Returned("parse")
  /\ LET asked == Innermost.arg
     IN IF ~ Worked /\ asked.again
        THEN SendNext("parse", "owned", [asked EXCEPT !.again = FALSE], FALSE)
             /\ UNCHANGED searchVars
        ELSE /\ known' = (known \/ Worked)
             /\ Show([query |-> asked.query, genre |-> crit.genre])

-----------------------------------------------------------------------------
SearchNext ==
  \/ \E q \in Queries : SetQuery(q) \/ SelectSuggestion(q)
  \/ \E g \in Genres : ToggleGenre(g)
  \/ ClearFilters \/ DebounceFires \/ SearchNow \/ OnAsyncReady \/ SearchReturns \/ ResultsParsed
  \/ HandleSearchBooks \/ HandleOwned

-----------------------------------------------------------------------------
\* Once nothing is under way and no search scheduled, the page does not spin and
\* its results are those of the criteria it shows, or there are none, whenever the
\* criteria were changed: before, during or after the search and its two waits.
\* The exception is a search asked for while another was waiting, which is dropped.
ResultsMatch ==
  AtRest /\ ~ debounce /\ busy = "no" /\ searched =>
    ~ searching /\ (found \in {Nothing, crit} \/ skipped)
=============================================================================
