--------------------------- MODULE MC_HasherRates ---------------------------
(* A rate that comes and vanishes, and a ring that refuses Buffers.        *)
EXTENDS HasherRates

MCRates == {0, 2}

(* The total means nothing once a print has met a callback.                *)
BeforeRace == ~raced

(* A fraction that was negative stays so while the total changes and ends  *)
(* in a failed assertion; it is explored as long as the total it was       *)
(* computed from is there.                                                 *)
FractionOfTotal == fraction = "negative" => total < 0

(* The network thread, which is there with a pool, handles no rates: one   *)
(* device has them then, and both with a node.                             *)
PoolRates == mode = "pool" => \A d \in Device \ {1} : prev[d] = 0
=============================================================================
