--------------------------- MODULE MCConnections ---------------------------
(* Connections on a small instance: the seeded admin root, an admin eve    *)
(* who still has to register, an ordinary user ann, and three client ids.  *)
(* Three ids let one user hold two connections while an admin is signed in *)
(* on the third.                                                           *)
EXTENDS Connections

CONSTANTS root, eve, ann, c1, c2, c3

MCUser == {root, eve, ann}
MCAdmins == {root, eve}
MCSeeded == {root}
MCConn == {c1, c2, c3}
=============================================================================
