----------------------------- MODULE VerusPool -----------------------------
(***************************************************************************)
(* The queue of finished GPU jobs and the CPU workers that drain it        *)
(* (cpu/verus_job.cpp, cpu/verus_worker.cpp, verus_pool.cpp).              *)
(*                                                                         *)
(* The coordinator's thread pushes the jobs that the GPUs have finished:   *)
(* under jobMutex the job is queued, then, without it, an event is posted  *)
(* to every worker in turn.  A worker sleeps until it has an event or is   *)
(* to continue, pops up to batchSize candidates, mines them and adapts     *)
(* batchSize to the time it took.                                          *)
(***************************************************************************)
EXTENDS Integers, Sequences, SequencesExt   \* FoldLeft, SumFunction, FlattenSeq

CONSTANTS
    Worker,        \* the workers
    MaxJobs,       \* bound: jobs pushed in a behaviour
    MaxResults,    \* bound: results of a job
    InitialBatch,  \* batchSize at the start (1000)
    Few,           \* fewer processed candidates than this are too few (100)
    Short,         \* a shorter time (ms) than this is too short (10)
    Boost,         \* factor if both hold (100)
    TargetMs,      \* the time (ms) a batch should take (100)
    WordMod,       \* number of values of batchSize, a size_t (2^64)
    Durations      \* the times (ms) that mining a batch can take

ASSUME WorkerAssumption == Worker # {}
ASSUME BoundAssumption == MaxJobs \in Nat /\ MaxResults \in Nat
ASSUME BatchAssumption ==
    /\ WordMod \in Nat \ {0} /\ InitialBatch \in 1 .. WordMod - 1
    /\ Few \in Nat /\ Short \in Nat /\ Boost \in Nat /\ TargetMs \in Nat
    /\ Durations \subseteq Nat \ {0}

VARIABLES
    queue,      \* jobs with results left, oldest first
    cursor,     \* results of the oldest job that have been popped
    watermark,  \* _watermark: results that have not been popped
    pushed,     \* number of jobs that came from the GPUs
    toWake,     \* the workers that push_job has still to wake
    events,     \* workers with a ContinueMining event
    continue,   \* workers whose continueMining is set
    pc,         \* where a worker is in its loop
    batchSize,  \* per worker
    batches,    \* per worker: the job it popped, a sequence of CandidateBatch
    aborted     \* an assertion failed and the process is gone

queueVars  == <<queue, cursor, watermark>>
workerVars == <<events, continue, pc, batchSize, batches>>
vars == <<queueVars, pushed, toWake, workerVars, aborted>>

Job   == 1 .. MaxJobs
Entry == [id : Job, size : 1 .. MaxResults]
Batch == [id : Job, offset : 0 .. MaxResults, len : 0 .. MaxResults]

TypeOK ==
    /\ queue \in Seq(Entry)
    /\ cursor \in Nat /\ watermark \in Int
    /\ pushed \in 0 .. MaxJobs
    /\ toWake \in SUBSET Worker
    /\ events \in SUBSET Worker /\ continue \in SUBSET Worker
    /\ pc \in [Worker -> {"wait", "pop", "mine"}]
    /\ batchSize \in [Worker -> 0 .. WordMod - 1]
    /\ batches \in [Worker -> Seq(Batch)]
    /\ aborted \in BOOLEAN

Init ==
    /\ queue = <<>> /\ cursor = 0 /\ watermark = 0
    /\ pushed = 0
    /\ toWake = {}
    /\ events = {} /\ continue = {}
    /\ pc = [w \in Worker |-> "wait"]
    /\ batchSize = [w \in Worker |-> InitialBatch]
    /\ batches = [w \in Worker |-> <<>>]
    /\ aborted = FALSE

(***************************************************************************)
(* push_job                                                                *)
(***************************************************************************)
(* JobQueue::push: a job without results is dropped (and so would be one   *)
(* older than cleanIndex, which stays 0 because clear is never called).    *)
Push(n) ==
    /\ ~aborted
    /\ toWake = {} /\ pushed < MaxJobs
    /\ pushed' = pushed + 1
    /\ IF n = 0 THEN UNCHANGED queueVars
       ELSE /\ queue' = Append(queue, [id |-> pushed + 1, size |-> n])
            /\ watermark' = watermark + n
            /\ cursor' = cursor
    /\ toWake' = Worker
    /\ UNCHANGED <<workerVars, aborted>>

(* w->wake_up(): the event is posted under the worker's mutex.             *)
WakeUp(w) ==
    /\ ~aborted
    /\ w \in toWake
    /\ toWake' = toWake \ {w}
    /\ events' = events \cup {w}
    /\ UNCHANGED <<queueVars, pushed, continue, pc, batchSize, batches, aborted>>

(***************************************************************************)
(* The loop of a worker                                                    *)
(***************************************************************************)
(* Faulty: a worker that found nothing keeps polling.                      *)
PopNothingPolling(w) ==
    /\ ~aborted
    /\ pc[w] = "pop" /\ queue = <<>>
    /\ pc' = [pc EXCEPT ![w] = "wait"]
    /\ UNCHANGED <<queueVars, pushed, toWake, events, continue, batchSize, batches, aborted>>

(* cv.wait ends: the events are taken, ContinueMining sets continueMining. *)
TakeEvents(w) ==
    /\ ~aborted
    /\ pc[w] = "wait"
    /\ w \in events \cup continue
    /\ events' = events \ {w}
    /\ continue' = continue \cup {w}
    /\ pc' = [pc EXCEPT ![w] = "pop"]
    /\ UNCHANGED <<queueVars, pushed, toWake, batchSize, batches, aborted>>

Least(a, b) == IF a < b THEN a ELSE b

(* Faulty: the cursor is not reset when a job is used up.                  *)
PopSomeKeepingCursor(s, N) ==
    LET job == Head(s.queue)
        M   == Least(N - s.total, job.size - s.cursor)
    IN  [batches   |-> Append(s.batches,
                          [id |-> job.id, offset |-> s.cursor, len |-> M]),
         total     |-> s.total + M,
         watermark |-> s.watermark - M,
         cursor    |-> s.cursor + M,
         queue     |-> IF s.cursor + M = job.size THEN Tail(s.queue) ELSE s.queue]

(* Faulty: every batch of a job starts at its beginning.                   *)
PopSomeFromStart(s, N) ==
    LET job == Head(s.queue)
        M   == Least(N - s.total, job.size - s.cursor)
    IN  [batches   |-> Append(s.batches,
                          [id |-> job.id, offset |-> 0, len |-> M]),
         total     |-> s.total + M,
         watermark |-> s.watermark - M,
         cursor    |-> IF s.cursor + M = job.size THEN 0 ELSE s.cursor + M,
         queue     |-> IF s.cursor + M = job.size THEN Tail(s.queue) ELSE s.queue]

(* One turn of the loop in JobQueue::pop, which takes what it can from the *)
(* oldest job.                                                             *)
PopSome(s, N) ==
    LET job == Head(s.queue)
        M   == Least(N - s.total, job.size - s.cursor)
    IN  [batches   |-> Append(s.batches,
                          [id |-> job.id, offset |-> s.cursor, len |-> M]),
         total     |-> s.total + M,
         watermark |-> s.watermark - M,
         cursor    |-> IF s.cursor + M = job.size THEN 0 ELSE s.cursor + M,
         queue     |-> IF s.cursor + M = job.size THEN Tail(s.queue) ELSE s.queue]

Popped(N) ==
    LET start == [batches |-> <<>>, total |-> 0, watermark |-> watermark,
                  cursor |-> cursor, queue |-> queue]
        turn[k \in 0 .. Len(queue)] ==
            IF k = 0 THEN start
            ELSE IF turn[k - 1].queue = <<>> \/ turn[k - 1].total >= N
                 THEN turn[k - 1]
                 ELSE PopSome(turn[k - 1], N)
    IN  turn[Len(queue)]

(* pop_job under jobMutex finds the queue empty: the worker goes to sleep. *)
PopNothing(w) ==
    /\ ~aborted
    /\ pc[w] = "pop" /\ queue = <<>>
    /\ continue' = continue \ {w}
    /\ pc' = [pc EXCEPT ![w] = "wait"]
    /\ UNCHANGED <<queueVars, pushed, toWake, events, batchSize, batches, aborted>>

Pop(w) ==
    /\ ~aborted
    /\ pc[w] = "pop" /\ queue # <<>> /\ batchSize[w] > 0
    /\ LET p == Popped(batchSize[w])
       IN  /\ queue' = p.queue
           /\ cursor' = p.cursor
           /\ watermark' = p.watermark
           /\ batches' = [batches EXCEPT ![w] = p.batches]
    /\ pc' = [pc EXCEPT ![w] = "mine"]
    /\ UNCHANGED <<pushed, toWake, events, continue, batchSize, aborted>>

(* assert(M > 0) in JobQueue::pop fails: the batch asked for is empty.     *)
PopAborts(w) ==
    /\ ~aborted
    /\ pc[w] = "pop" /\ queue # <<>> /\ batchSize[w] = 0
    /\ aborted' = TRUE
    /\ UNCHANGED <<queueVars, pushed, toWake, workerVars>>

(* Faulty: the product does not wrap.                                      *)
AdjustedBatchSizeUnwrapped(old, processed, ms) ==
    IF processed < Few /\ ms < Short
    THEN old * Boost
    ELSE (processed * TargetMs) \div ms

(* adjust_batch_size: size_t wraps in the product, the quotient is cut.    *)
AdjustedBatchSize(old, processed, ms) ==
    IF processed < Few /\ ms < Short
    THEN (old * Boost) % WordMod
    ELSE ((processed * TargetMs) \div ms) % WordMod

(* The most candidates mining can touch: of a batch that begins inside the *)
(* second span of a Buffer, mine_job starts over at that span's beginning. *)
MostProcessed(bs) == FoldLeft(LAMBDA n, b : n + b.offset + b.len, 0, bs)

(* Faulty: a worker stops after one batch.                                 *)
MineOnce(w) ==
    /\ ~aborted
    /\ pc[w] = "mine"
    /\ batches' = [batches EXCEPT ![w] = <<>>]
    /\ pc' = [pc EXCEPT ![w] = "wait"]
    /\ continue' = continue \ {w}
    /\ UNCHANGED <<queueVars, pushed, toWake, events, batchSize, aborted>>

(* mine, trace_verus and adjust_batch_size; a share, if one was found, is  *)
(* handed to the coordinator.  Only candidates below the threshold are     *)
(* processed, and a share ends the work early.                             *)
Mine(w) ==
    /\ ~aborted
    /\ pc[w] = "mine"
    /\ \E processed \in 0 .. MostProcessed(batches[w]), ms \in Durations :
          batchSize' = [batchSize EXCEPT
                          ![w] = AdjustedBatchSize(@, processed, ms)]
    /\ batches' = [batches EXCEPT ![w] = <<>>]
    /\ pc' = [pc EXCEPT ![w] = "wait"]
    /\ UNCHANGED <<queueVars, pushed, toWake, events, continue, aborted>>

Run(w) == TakeEvents(w) \/ PopNothing(w) \/ Pop(w) \/ PopAborts(w) \/ Mine(w)

Next ==
    \/ \E n \in 0 .. MaxResults : Push(n)
    \/ \E w \in Worker : WakeUp(w) \/ Run(w)

Spec == Init /\ [][Next]_vars

(* Threads run: a worker that can continue does, and the coordinator       *)
(* finishes its round of wake_up calls.  Nothing obliges a GPU to deliver. *)
Fairness == \A w \in Worker : WF_vars(Run(w)) /\ WF_vars(WakeUp(w))

FairSpec == Spec /\ Fairness

(***************************************************************************)
(* Properties                                                              *)
(***************************************************************************)
(* The watermark, from which the share of candidates to mine is computed,  *)
(* is the number of results not popped yet, across partly popped jobs:     *)
(* pop's assertions on cursor and _watermark hold.                         *)
WatermarkExact ==
    /\ watermark = SumFunction([i \in DOMAIN queue |-> queue[i].size]) - cursor
    /\ queue = <<>> => cursor = 0
    /\ queue # <<>> => cursor < Head(queue).size

(* Candidates of batches and jobs, for the abstract queue.                 *)
CandidatesOf(bs) ==
    FlattenSeq([i \in DOMAIN bs |->
        [k \in 1 .. bs[i].len |-> <<bs[i].id, bs[i].offset + k - 1>>]])

PendingCandidates ==
    FlattenSeq([i \in DOMAIN queue |->
        LET done == IF i = 1 THEN cursor ELSE 0
        IN  [k \in 1 .. queue[i].size - done |-> <<queue[i].id, done + k - 1>>]])

Fifo == INSTANCE CandidateFifo WITH
            pending <- PendingCandidates,
            mining  <- [w \in Worker |-> CandidatesOf(batches[w])]

(* Pushing and popping in pieces, by workers with different batch sizes,   *)
(* hands every candidate to one worker, once, and in order.                *)
ImplementsFifo == Fifo!Spec

(* No wake-up is lost: while candidates wait, a worker is at work, about   *)
(* to look at the queue, or about to be woken; a push that comes between a *)
(* worker's look at an empty queue and its sleep is not missed.            *)
Attentive(w) == pc[w] # "wait" \/ w \in events \cup continue
NoLostWakeup ==
    queue # <<>> => toWake # {} \/ \E w \in Worker : Attentive(w)

(* Every candidate is taken from the queue in the end, or an assertion has *)
(* failed.                                                                 *)
EveryJobDrained ==
    \A j \in Job : (pushed >= j) ~>
        (aborted \/ \A i \in DOMAIN queue : queue[i].id # j)

(* With nothing left to push, all workers go to sleep instead of polling.  *)
WorkersComeToRest ==
    (pushed = MaxJobs) ~> (aborted \/ \A w \in Worker : ~Attentive(w))

(* assert(M > 0) in JobQueue::pop: what a worker is about to take from the *)
(* oldest job is never nothing.                                            *)
PopTakesSomething ==
    \A w \in Worker : (pc[w] = "pop" /\ queue # <<>>) =>
        Least(batchSize[w], Head(queue).size - cursor) > 0
=============================================================================
