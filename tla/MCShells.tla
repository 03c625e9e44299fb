-------------------------------- MODULE MCShells --------------------------------
EXTENDS Shells
CONSTANTS b1, b2, q1, q2, g1, g2
MCShellNames == {"moderator", "monitor", "reader", "home", "search"}
MCMaxCalls == [s \in MCShellNames |-> IF s = "search" THEN 4 ELSE 3]
MCMaxDepth == [s \in MCShellNames |-> IF s = "moderator" THEN 2 ELSE 3]
MCBooks == {b1}
MCReadable == {b1, b2}
MCPageCounts == [b \in MCReadable |-> IF b = b1 THEN 2 ELSE 1]
MCQueries == {q1, q2}
MCGenres == {g1, g2}
MCUnfiltered == [query |-> q1, genre |-> g1]
==================================================================================
