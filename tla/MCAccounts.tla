----------------------------- MODULE MCAccounts -----------------------------
(* Accounts with a reader and a publisher, who use the same client.        *)
EXTENDS Accounts, TLC

CONSTANTS ann, pia, p1, p2

Passwords == Permutations(Password)
=============================================================================
