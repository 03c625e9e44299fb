SPECIFICATION Spec
CONSTANTS
  b1 = b1
  b2 = b2
  q1 = q1
  q2 = q2
  g1 = g1
  g2 = g2
  NoBook = NoBook
  Nothing = Nothing
  Shells <- MCShellNames
  MaxCalls <- MCMaxCalls
  Books <- MCBooks
  Readable <- MCReadable
  PageCounts <- MCPageCounts
  Queries <- MCQueries
  Genres <- MCGenres
  Unfiltered <- MCUnfiltered
  MaxPage = 3
  MaxDepth <- MCMaxDepth
  MaxFaults = 1
  MaxChanges = 1
INVARIANTS ListsAgree FiguresFresh ReaderAgrees HomeAgrees ResultsMatch
CHECK_DEADLOCK FALSE
