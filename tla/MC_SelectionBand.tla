-------------------------- MODULE MC_SelectionBand --------------------------
(* First words of 12 bits, and the two constants as far apart as 12 bits   *)
(* leave them: C_CONSTANT is 0x147ae14, threshold() begins at 0x00FFFFFF.  *)
EXTENDS SelectionBand

MCFractions == [cpu : {1, 2, 7}, gpu : {1, 2, 3, 10, 50, 800, 2000}]
=============================================================================
