----------------------------- MODULE MCLibrary -----------------------------
(* Library and Shop with a reader whose shelves are seeded and a new one.   *)
EXTENDS Shop

CONSTANTS ann, bob, b1, b2

\* Which of them was seeded makes no difference.
Readers == Permutations(Users)
=============================================================================
