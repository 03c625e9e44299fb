---------------------------- MODULE MCStudyRoom ----------------------------
(* StudyRoom on a small instance: two readers, one or two rooms, notes.    *)
EXTENDS StudyRoom, TLC

CONSTANTS leila, omid, r1, r2, n1, n2

MCUser == {leila, omid}
MCOneRoom == {r1}
MCOneNote == {n1}
MCNote == {n1, n2}

MCSymmetry == Permutations(MCUser)
MCNoteSymmetry == Permutations(MCUser) \cup Permutations(MCNote)
=============================================================================
