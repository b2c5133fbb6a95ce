--------------------------- MODULE CandidateFifo ---------------------------
(***************************************************************************)
(* What the queue between the GPU side and the CPU workers promises: the   *)
(* candidates of finished kernels (the results a kernel found, numbered    *)
(* from 0) are handed to the workers in order, each of them to one worker  *)
(* and once, and a worker that asks gets at least one if there are any.    *)
(***************************************************************************)
EXTENDS Naturals, Sequences

CONSTANTS Worker, Job, MaxResults

VARIABLES
    pending,  \* candidates <<job, index>> not handed out yet, oldest first
    mining    \* the candidates each worker is working on

vars == <<pending, mining>>

Init ==
    /\ pending = <<>>
    /\ mining = [w \in Worker |-> <<>>]

(* A kernel's job has n results.                                           *)
Put(j, n) ==
    /\ pending' = pending \o [i \in 1 .. n |-> <<j, i - 1>>]
    /\ UNCHANGED mining

(* A worker takes the k oldest candidates.                                 *)
Take(w, k) ==
    /\ mining[w] = <<>>
    /\ mining' = [mining EXCEPT ![w] = SubSeq(pending, 1, k)]
    /\ pending' = SubSeq(pending, k + 1, Len(pending))

Done(w) ==
    /\ mining[w] # <<>>
    /\ mining' = [mining EXCEPT ![w] = <<>>]
    /\ UNCHANGED pending

Next ==
    \/ \E j \in Job, n \in 1 .. MaxResults : Put(j, n)
    \/ \E w \in Worker, k \in 1 .. Len(pending) : Take(w, k)
    \/ \E w \in Worker : Done(w)

Spec == Init /\ [][Next]_vars
=============================================================================
