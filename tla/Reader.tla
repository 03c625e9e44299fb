-------------------------------- MODULE Reader --------------------------------
(***************************************************************************)
(* The reader: ReaderService and ReaderViewModel, which open a book in two  *)
(* requests and keep the page, and the PDF view over them.                 *)
(***************************************************************************)
EXTENDS Waits

CONSTANTS
  Readable,
  PageCounts,      \* the pages of each book's PDF
  MaxPage,         \* bound: the page the keyboard goes to without a PDF
  NoBook           \* no book, no file

\* A PDF that is ready has a page.
ASSUME ReaderAssumption == PageCounts \in [Readable -> Nat \ {0}] /\ NoBook \notin Readable

VARIABLES
  reading,     \* m_currentBookId, m_pdfPath (by its book), m_currentPage, m_pageCount
  view,        \* what PdfDocument shows, and whether it is ready
  lastPages,   \* m_lastPages
  opening,     \* books to open once the loop runs
  shown,       \* the overlay covers the shell
  loading,
  crossed,     \* history: a download ended over another book, see ReaderAgrees
  strayed      \* history: books with a page saved that their PDF did not show

readerVars == <<reading, view, lastPages, opening, shown, loading, crossed, strayed>>

-----------------------------------------------------------------------------
Closed == [id |-> NoBook, pdf |-> NoBook, page |-> 1, count |-> 0]

ReaderInit ==
  /\ reading = Closed /\ view = [pdf |-> NoBook, ready |-> FALSE]
  /\ lastPages = [b \in Readable |-> 1]
  /\ opening = <<>> /\ strayed = {}
  /\ shown = FALSE /\ loading = FALSE /\ crossed = FALSE

\* PdfDocument loads when its source changes.
Showing(pdf) == IF view.pdf = pdf THEN view ELSE [pdf |-> pdf, ready |-> FALSE]

-----------------------------------------------------------------------------
(* The server: BookRequestHandler, and the page a closed reader sends, which *)
(* is refused for want of a session of group reading.                      *)

HandleGetBookDetails == Asked("open") /\ ReplyTo(stack, Ok(0)) /\ UNCHANGED readerVars

\* There may be no file.
HandleDownloadBookPdf ==
  Asked("download") /\ (Answer(0) \/ Refuse) /\ UNCHANGED readerVars

HandleSyncStudyPage == Asked("page") /\ Refuse /\ UNCHANGED readerVars

-----------------------------------------------------------------------------
(* Opening and closing.                                                    *)

\* The overlay appears at once; the work is queued.
OpenBook(b) ==
  /\ Command /\ ~ shown /\ shown' = TRUE
  /\ loading' = TRUE /\ opening' = Append(opening, b)
  /\ hot' = FALSE /\ Idle /\ UNCHANGED <<reading, view, lastPages, crossed, strayed>>

StartOpen ==
  /\ Dispatching /\ opening # <<>> /\ opening' = Tail(opening)
  /\ Send("open", "open", [book |-> Head(opening)]) /\ UNCHANGED calls
  /\ UNCHANGED <<reading, view, lastPages, shown, loading, crossed, strayed>>

OpenReturnsKeepingPdf ==
  /\ Returned("open") /\ UNCHANGED <<view, lastPages, opening, shown, strayed>>
  /\ crossed' = (crossed /\ ~ Worked)
  /\ IF Worked
     THEN /\ reading' = [reading EXCEPT !.id = Innermost.arg.book]
          /\ SendNext("download", "download", Innermost.arg, FALSE) /\ UNCHANGED loading
     ELSE loading' = FALSE /\ Ends(FALSE) /\ UNCHANGED reading

\* Nothing is signalled yet: the view shows what it did.
OpenReturns ==
  /\ Returned("open") /\ UNCHANGED <<view, lastPages, opening, shown, strayed>>
  /\ crossed' = (crossed /\ ~ Worked)
  /\ IF Worked
     THEN /\ reading' = [reading EXCEPT !.id = Innermost.arg.book, !.pdf = NoBook]
          /\ SendNext("download", "download", Innermost.arg, FALSE) /\ UNCHANGED loading
     ELSE loading' = FALSE /\ Ends(FALSE) /\ UNCHANGED reading

DownloadReturns ==
  /\ Returned("download") /\ Ends(TRUE) /\ loading' = FALSE
  /\ LET b == Innermost.arg.book
     IN /\ reading' = [reading EXCEPT !.pdf = IF Worked THEN b ELSE @,
                                      !.page = lastPages[b], !.count = 0]
        /\ crossed' = (reading.id # b \/ (crossed /\ ~ Worked))
  /\ view' = Showing(reading'.pdf)
  /\ UNCHANGED <<lastPages, opening, shown, strayed>>

\* closeBook, with the page of the book sent to nobody.
CloseBook ==
  /\ Dispatching /\ shown /\ shown' = FALSE
  /\ reading' = Closed /\ view' = Showing(NoBook)
  /\ wire' = IF reading.id = NoBook THEN wire
             ELSE Append(wire, [do |-> "page", arg |-> <<>>, depth |-> 0])
  /\ hot' = FALSE /\ UNCHANGED <<session, stack, calls, faults, changes>>
  /\ crossed' = FALSE /\ UNCHANGED <<lastPages, opening, loading, strayed>>

-----------------------------------------------------------------------------
(* Pages.                                                                  *)

\* setPage
TurnTo(p) ==
  /\ p >= 1 /\ (reading.count > 0 => p <= reading.count) /\ p # reading.page
  /\ reading' = [reading EXCEPT !.page = p]
  /\ IF reading.id = NoBook THEN UNCHANGED <<lastPages, strayed>>
     ELSE /\ lastPages' = [lastPages EXCEPT ![reading.id] = p]
          /\ strayed' = IF view = [pdf |-> reading.id, ready |-> TRUE] THEN strayed
                        ELSE strayed \cup {reading.id}
  /\ hot' = FALSE /\ Idle /\ UNCHANGED <<view, opening, shown, loading, crossed, calls>>

\* The view's own cursor moves.
TurnPage(p) ==
  Dispatching /\ view.ready /\ p \in 1..PageCounts[view.pdf] /\ TurnTo(p)

\* Keys turn pages when there is no PDF.
TurnBlindly ==
  /\ Dispatching /\ shown /\ ~ view.ready /\ reading.id # NoBook
  /\ \E p \in {reading.page - 1, reading.page + 1} : p <= MaxPage /\ TurnTo(p)

\* setPageCount, from the view.
PdfReady ==
  /\ Dispatching /\ view.pdf # NoBook /\ ~ view.ready
  /\ LET n == PageCounts[view.pdf]
     IN /\ reading' = [reading EXCEPT !.count = n, !.page = IF @ > n THEN n ELSE @]
        /\ view' = IF reading.count = n \/ reading.pdf = view.pdf
                   THEN [view EXCEPT !.ready = TRUE] ELSE Showing(reading.pdf)
  /\ hot' = FALSE /\ Idle
  /\ UNCHANGED <<lastPages, opening, shown, loading, crossed, strayed, calls>>

-----------------------------------------------------------------------------
ReaderNext ==
  \/ \E b \in Readable : OpenBook(b)
  \/ StartOpen \/ OpenReturns \/ DownloadReturns \/ CloseBook
  \/ \E p \in 1..MaxPage : TurnPage(p)
  \/ TurnBlindly \/ PdfReady
  \/ HandleGetBookDetails \/ HandleDownloadBookPdf \/ HandleSyncStudyPage

-----------------------------------------------------------------------------
\* Once nothing is under way, the reader is not loading, the view shows the file
\* the service holds, that is the open book's or none, and the page is the one
\* saved for the book or the last of its PDF, however openings, closings, page
\* turns and failures overlapped. It may differ when a download returned while
\* its book was not the open one, by a close or a second opening in its wait. A
\* book's saved page is one of its PDF, unless it was turned to while the view
\* showed another file, or none.
ReaderAgrees ==
  AtRest /\ opening = <<>> =>
    /\ ~ loading
    /\ view.pdf = reading.pdf
    /\ crossed \/ reading.pdf \in {NoBook, reading.id}
    /\ \/ crossed \/ reading.id = NoBook
       \/ reading.page \in {lastPages[reading.id], reading.count}
    /\ \A b \in Readable : b \in strayed \/ lastPages[b] <= PageCounts[b]
=============================================================================
