---------------------------- MODULE MC_VerusPool ----------------------------
(* Two workers and a few jobs of up to three results, so that batches end  *)
(* within a job, at its end and beyond it.                                 *)
(* The numbers of adjust_batch_size are scaled down; every kind of outcome *)
(* remains: growth, wrap-around to 0, a size of 1 or more, and a quotient  *)
(* that is cut to 0.                                                       *)
EXTENDS VerusPool, TLC

CONSTANTS w1, w2
MCWorker == {w1, w2}
MCDurations == {1, 5}
Symmetric == Permutations(Worker)
=============================================================================
