---------------------------- MODULE MC_GpuHasher ----------------------------
(* Two devices that share the generator and the ring, jobs of two nonces   *)
(* and ranges of one or two: a job lasts for one or two kernels, ranges    *)
(* are cut and wrap around behind the last nonce, and a second set_work    *)
(* falls anywhere in between.  There is no symmetry, which would not be    *)
(* sound for the liveness property.                                        *)
EXTENDS GpuHasher

CONSTANTS d1, d2
MCDevices == {d1, d2}
MCChunks == {1, 2}
=============================================================================
