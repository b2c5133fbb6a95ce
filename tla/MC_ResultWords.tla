-------------------------- MODULE MC_ResultWords --------------------------
(* Three Buffers, two of which must overlap for a hash to be overwritten.  *)
EXTENDS ResultWords, TLC

CONSTANTS b1, b2, b3
MCBuf == {b1, b2, b3}
MCRequests == {3, 5}
BeforeLate == ~late
Symmetric == Permutations(Buf)
=============================================================================
