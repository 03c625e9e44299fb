------------------------------- MODULE MCDesk -------------------------------
(* Desk with a publisher and a reader who use the same client in turn.      *)
EXTENDS Desk

CONSTANTS pia, ann
=============================================================================
