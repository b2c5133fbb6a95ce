--------------------------- MODULE MC_CyclicQueue ---------------------------
(* A ring of a few words: requests that fit, that wrap around the end, and *)
(* that ask for more than there is.                                        *)
EXTENDS CyclicQueue, TLC

CONSTANTS b1, b2, b3
MCBuf == {b1, b2, b3}
MCRequests == {3, 5, 21}

(* The properties say nothing of a ring whose i1 an overtaken destructor   *)
(* has overwritten: the exploration stops there.                           *)
BeforeLate == ~late
Symmetric == Permutations(Buf)
=============================================================================
