---------------------------- MODULE MCClientLink ----------------------------
(* ClientLink with a call that waits, another made meanwhile, one with a   *)
(* callback and one whose reply nobody wants.                              *)
EXTENDS ClientLink

CONSTANTS c1, c2, a1, k1
=============================================================================
