----------------------------- MODULE SpanMining -----------------------------
(***************************************************************************)
(* How a worker goes through the candidates of its batches                 *)
(* (JanusMinerOpt::mine, mine_job_v2_1 and mine_job_v2_2 of                *)
(* verusopt/verus_clhash_opt.cpp).                                         *)
(*                                                                         *)
(* The results of a kernel lie in two spans, since its Buffer may be split *)
(* at the end of the ring.  A batch is a range of candidates, counted      *)
(* through both spans; mine_job keeps what is left of it in two variables  *)
(* of type size_t and steps them from one span to the next.  The hash and  *)
(* the comparison with threshold and target are reduced to their outcome:  *)
(* a candidate may turn out to be a share, which ends the work.            *)
(***************************************************************************)
EXTENDS Integers

CONSTANTS
    WordMod,   \* number of values of a size_t (2^64)
    MaxSize    \* bound: candidates of a span

(* The words of both spans are in memory, each result takes two of them.   *)
ASSUME WordAssumption ==
    WordMod \in Nat /\ MaxSize \in Nat /\ 2 * MaxSize < WordMod

VARIABLES
    size,     \* candidates in each span
    batch,    \* the range of candidates to look at
    span,     \* the span mine_job is at; 3 at its end
    offset,   \* mine_job's variables
    len,
    looked,   \* per span: the candidates looked at for this batch
    counted,  \* res.total is not zero
    found     \* a share ended the work

vars == <<size, batch, span, offset, len, looked, counted, found>>

Word  == 0 .. WordMod - 1
(* result_spans fills the first span before the second.                    *)
Sizes == {sz \in [1 .. 2 -> 0 .. MaxSize] : sz[2] > 0 => sz[1] > 0}

(* JobQueue::pop cuts at least one candidate, within those there are.      *)
IsBatch(b, sz) == b.len >= 1 /\ b.offset + b.len <= sz[1] + sz[2]
Batch == [offset : 0 .. 2 * MaxSize, len : 0 .. 2 * MaxSize]

TypeOK ==
    /\ size \in Sizes /\ batch \in Batch /\ IsBatch(batch, size)
    /\ span \in 1 .. 3
    /\ offset \in Word /\ len \in Word
    /\ looked \in [1 .. 2 -> SUBSET Nat]
    /\ counted \in BOOLEAN /\ found \in BOOLEAN

Begin(sz, b) ==
    /\ size = sz /\ batch = b
    /\ span = 1 /\ offset = b.offset /\ len = b.len
    /\ looked = [s \in 1 .. 2 |-> {}]

Init ==
    /\ \E sz \in Sizes, b \in Batch : IsBatch(b, sz) /\ Begin(sz, b)
    /\ counted = FALSE /\ found = FALSE

(***************************************************************************)
(* size_t                                                                  *)
(***************************************************************************)
Plus(a, b)  == IF a + b < WordMod THEN a + b ELSE a + b - WordMod
(* Faulty: numbers below zero.                                             *)
MinusSigned(a, b) == a - b
Minus(a, b) == IF b <= a THEN a - b ELSE a - b + WordMod
Least(a, b) == IF a < b THEN a ELSE b

(***************************************************************************)
(* mine_job                                                                *)
(***************************************************************************)
(* Faulty: the end of the batch is not cut at the end of the span.         *)
BoundUncut == Plus(offset, len)

Bound == Least(Plus(offset, len), size[span])
(* Faulty: one candidate more, one candidate less.                         *)
HereInclusive == {j \in 0 .. WordMod - 1 : offset <= j /\ j <= Bound}
HereExclusive == {j \in 0 .. WordMod - 1 : offset < j /\ j < Bound}

Here  == {j \in 0 .. WordMod - 1 : offset <= j /\ j < Bound}

(* Faulty: a batch that begins behind the span keeps its offset.           *)
OffsetInNextKept == IF offset > size[span] THEN offset ELSE Minus(offset, size[span])

(* The condition is the wrong way round: a batch that begins behind the    *)
(* span goes on at the beginning of the next one, and the offset of one    *)
(* that begins inside wraps around.                                        *)
OffsetInNext == IF offset > size[span] THEN 0 ELSE Minus(offset, size[span])

LenInNext == Minus(len, Minus(Bound, offset))

(* No share in this span.                                                  *)
MineSpan ==
    /\ span \in 1 .. 2 /\ ~found
    /\ looked' = [looked EXCEPT ![span] = Here]
    /\ counted' = (counted \/ Here # {})
    /\ len' = LenInNext /\ offset' = OffsetInNext
    /\ span' = span + 1
    /\ UNCHANGED <<size, batch, found>>

(* The candidate j is a share: mine_job and mine return.                   *)
FindShare(j) ==
    /\ span \in 1 .. 2 /\ ~found
    /\ j \in Here
    /\ looked' = [looked EXCEPT ![span] = {i \in Here : i <= j}]
    /\ counted' = TRUE /\ found' = TRUE
    /\ UNCHANGED <<size, batch, span, offset, len>>

(* mine goes on to the worker's next batch, of the same job or another.    *)
NextBatch ==
    /\ span = 3
    /\ \E sz \in Sizes, b \in Batch :
        /\ IsBatch(b, sz)
        /\ size' = sz /\ batch' = b
        /\ offset' = b.offset /\ len' = b.len
    /\ span' = 1
    /\ looked' = [s \in 1 .. 2 |-> {}]
    /\ UNCHANGED <<counted, found>>

Next == MineSpan \/ (\E j \in 0 .. MaxSize : FindShare(j)) \/ NextBatch

Spec == Init /\ [][Next]_vars

(***************************************************************************)
(* Properties                                                              *)
(***************************************************************************)
(* The candidates of the batch that lie in a span.                         *)
Wanted(s) ==
    IF s = 1
    THEN {j \in 0 .. size[1] - 1 :
            batch.offset <= j /\ j < batch.offset + batch.len}
    ELSE {j \in 0 .. size[2] - 1 :
            batch.offset <= size[1] + j /\ size[1] + j < batch.offset + batch.len}
Finished == span = 3

(* mine_job never reads outside a span, although offset and len wrap       *)
(* around.                                                                 *)
WithinSpans == \A s \in 1 .. 2 : \A j \in looked[s] : j < size[s]

(* Only a batch that lies across the seam between the spans loses          *)
(* candidates, and only those behind the seam.                             *)
MissedOnlyAcrossSeam ==
    Finished =>
        /\ \A j \in Wanted(1) : j \in looked[1]
        /\ batch.offset >= size[1] => \A j \in Wanted(2) : j \in looked[2]

(* Only a batch that begins behind the first candidate of the second span  *)
(* looks at candidates that are not its own, which another batch has too.  *)
RepeatedOnlyBehindSeam ==
    batch.offset <= size[1] =>
        \A s \in 1 .. 2 : \A j \in looked[s] : j \in Wanted(s)

(* mine has always counted a candidate when it returns                     *)
(* (assert(res.total != 0)).                                               *)
TotalNonzero == (Finished \/ found) => counted
=============================================================================
