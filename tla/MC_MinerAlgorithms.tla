------------------------- MODULE MC_MinerAlgorithms -------------------------
(* Spans of up to five candidates and a size_t of eleven values: enough    *)
(* for batches on either side of the seam and across it.                   *)
(* Floats of 12 bits, every first word the kernel passes on, VerusHashes   *)
(* with leading zeros and with ones only, and difficulties below, at and   *)
(* between powers of two.                                                  *)
(* Bodies of up to 210 bytes of which 200 are allowed, with up to eight    *)
(* entries: trees with and without hashes that have no partner.            *)
(* First words of 12 bits; fractions below, at and above one.              *)
(* Two workers, one kept total, reports too short, too small, fast and     *)
(* slow.                                                                   *)
EXTENDS MinerAlgorithms

MCHashStarts == 20 .. 4095
MCVerusStarts == {<<0, 0, 1>>, <<5>>, <<7, 7, 7, 7>>, <<0, 0, 0, 0, 0, 0>>}
MCDifficulties == [exp : {0, 1, 2, 5, 9}, man : {2048, 2049, 3000, 4095}]

MCFractions == [cpu : {1, 2, 7}, gpu : {1, 2, 3, 10, 50, 800, 2000}]

Timing(us, n) == [duration |-> us, processed |-> n]
MCTimings == {Timing(1, 5), Timing(2, 1), Timing(2, 2), Timing(20, 5)}
=============================================================================
