--------------------------- MODULE SelectionBand ----------------------------
(***************************************************************************)
(* Which hashes a kernel selects and which of them a worker looks at.      *)
(* KernelRunner::try_start (gpu/opencl_hasher.hpp) chooses the number of   *)
(* nonces and of results by the ring's room and by the fraction of the     *)
(* GPUs' rate that the CPU side can keep up with, and computes a threshold *)
(* for the first 32 bits of a hash; the kernel selects what lies between   *)
(* C_CONSTANT and the threshold (gpu/kernel.cl).  If too much waits in the *)
(* queue, workers skip the upper part of that band (JobQueue::             *)
(* mine_proportion, MinedValues::scaled_threshold).                        *)
(*                                                                         *)
(* Floating-point numbers are exact here: a fraction is cpu / gpu.         *)
(***************************************************************************)
EXTENDS Integers, FiniteSets

CONSTANTS
    MaxHash,    \* the greatest first word of a hash (2^32 - 1)
    C,          \* C_CONSTANT, where the kernel's band begins
    CThreshold, \* the constant c of threshold(), not above C_CONSTANT
    Fractions,  \* fractions, as [cpu, gpu]
    Requests,   \* nonces a device asks for, N
    Rooms,      \* what available() of the ring returns
    Remaining,  \* nonces of the job that are left
    Watermarks  \* candidates waiting in the queue

ASSUME BandAssumption ==
    /\ MaxHash \in Nat /\ C \in 1 .. MaxHash /\ CThreshold \in 1 .. C
    /\ \A f \in Fractions : f.cpu \in Nat \ {0} /\ f.gpu \in Nat \ {0}
    /\ Requests \subseteq Nat \ {0} /\ Rooms \subseteq Nat
    /\ Remaining \subseteq Nat \ {0} /\ Watermarks \subseteq Nat

VARIABLE band  \* a kernel's range and threshold, then what a worker makes of it

NoBand == [stage |-> "none"]

(***************************************************************************)
(* try_start                                                               *)
(***************************************************************************)
Smaller(a, b) == IF a < b THEN a ELSE b

(* No more nonces than fill the room with half a percent to spare; but the *)
(* room itself is always asked for.                                        *)
NonceCount(f, N, room) ==
    LET fill == (room * 200 * f.gpu) \div (201 * f.cpu)
    IN  Smaller(N, IF fill < room THEN room ELSE fill)

(* Faulty: more results than nonces can be expected.                       *)
ResultCountUncut(f, n) ==
    LET expected == (n * f.cpu * 201) \div (f.gpu * 200)
    IN  IF expected = 0 THEN 1 ELSE expected

ResultCount(f, n) ==
    LET expected == Smaller((n * f.cpu * 201) \div (f.gpu * 200), n)
    IN  IF expected = 0 THEN 1 ELSE expected

(* threshold(M, N), an uint32_t.                                           *)
Threshold(M, n) == (CThreshold + (M * (MaxHash - CThreshold)) \div n) % (MaxHash + 1)

(* Nothing starts when the ring has no room.  get_job cuts the range to    *)
(* what is left of the job.                                                *)
StartBand ==
    /\ band = NoBand
    /\ \E f \in Fractions, N \in Requests, room \in Rooms \ {0}, left \in Remaining :
         LET n == NonceCount(f, N, room)
             M == ResultCount(f, n)
         IN  band' = [stage |-> "kernel", fraction |-> f, room |-> room, asked |-> n,
                      nonces |-> Smaller(n, left), results |-> M,
                      threshold |-> Threshold(M, Smaller(n, left))]

(* The kernel's condition.                                                 *)
Selected(t) == C .. t - 1

(***************************************************************************)
(* JobQueue::pop and mine_job                                              *)
(***************************************************************************)
(* mine_proportion, as a fraction [part, of]; rate is the CPU side's, or 0 *)
(* as long as it is not known.                                             *)
MineProportion(rate, watermark) ==
    IF rate = 0 \/ rate > watermark * 10 THEN [part |-> 1, of |-> 1]
    ELSE [part |-> rate, of |-> watermark * 10]

ScaledThreshold(t, d) == (d.part * (t - C)) \div d.of + C

(* There are candidates only if the band is not empty.                     *)
MineBand ==
    /\ band.stage = "kernel" /\ Selected(band.threshold) # {}
    /\ \E rate \in {0, band.fraction.cpu}, w \in Watermarks :
         LET d == MineProportion(rate, w)
         IN  band' = [stage |-> "mined", threshold |-> band.threshold, proportion |-> d,
                      looked |-> {h \in Selected(band.threshold) :
                                     h <= ScaledThreshold(band.threshold, d)}]

InitBand == band = NoBand
NextBand == StartBand \/ MineBand
SpecBand == InitBand /\ [][NextBand]_band

(***************************************************************************)
(* Properties                                                              *)
(***************************************************************************)
(* A kernel asks the ring for at least one result and for no more than the *)
(* number available() returned, and its band is no wider than to expect as *)
(* many results as it asks for, also when its range was cut at the end of  *)
(* the job.  A worker looks at a part of the band that is proportional up  *)
(* to one hash, at the band as a whole when the queue is short, and never  *)
(* at nothing, so that a job's candidates are not all skipped.             *)
BandFitsRoom ==
    /\ band.stage = "kernel" =>
          /\ 1 <= band.results /\ band.results <= band.room
          /\ band.results <= band.asked
          /\ Cardinality(Selected(band.threshold)) * band.nonces
                <= band.results * (MaxHash + 1)
    /\ band.stage = "mined" =>
          LET d     == band.proportion
              width == band.threshold - C
              n     == Cardinality(band.looked)
          IN  /\ n >= 1 /\ 0 < d.part /\ d.part <= d.of
              /\ d.part * width <= d.of * n
              /\ d.of * (n - 1) <= d.part * width

(* "the selection band (c,c+cpu_hashrate/gpu_hashrate)" of the comment in  *)
(* cpu/verus_job.cpp:21-22: unless the range was cut, the band is as wide  *)
(* as the fraction of all hashes above C_CONSTANT that was asked for.      *)
BandAsWideAsFraction ==
    band.stage = "kernel" /\ band.nonces = band.asked =>
        Cardinality(Selected(band.threshold)) >=
            (band.results * (MaxHash - C)) \div band.asked
=============================================================================
