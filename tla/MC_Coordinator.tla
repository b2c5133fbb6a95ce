--------------------------- MODULE MC_Coordinator ---------------------------
(* Two tips with two templates each, two sessions, and enough found hashes *)
(* for one to be taken up in a session and sent in the next.               *)
EXTENDS Coordinator, TLC

CONSTANTS p1, p2
MCParents == {p1, p2}
=============================================================================
