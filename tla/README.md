# Verification of janusminer

janusminer mines on GPUs and CPUs together.  A GPU kernel tries a range of
nonces and selects the headers whose triple SHA-256 lies in a band; CPU
workers compute the expensive VerusHash of these candidates only, and the two
hashes together decide about a block or a share.  This directory holds TLA+
modules of the parts where threads meet, the configurations with which TLC
checks them, and proofs checked by TLAPS.

Paths below are relative to `src/src/miner/` unless they begin with `shared/`.

## Parts of the program

| Part | Source | State it keeps | Operations | Talks to |
|---|---|---|---|---|
| Result ring | `cyclic_queue.hpp`, `sha256t_results.hpp` | `i0`, `i1`, `hasSpace`, `failedAlloc`, weak `prev`; per Buffer its spans, `destructCursor`, `next` | `available`, `alloc`, `~Buffer`/`free` | GPU hasher (Allocator, `freeCallback`), everyone who holds a Buffer |
| GPU hasher | `gpu/opencl_hasher.*` | per device `job`, `active`, two runners, rates; generator, total rate, fraction | `set_work`, `try_start`, completion callback, `allocation_possible`, `stop_mining`, `hashrates`, `update_verushashrate` | ring, generators, coordinator |
| Mined values | `gpu/mined_values.hpp` | job, threshold, Buffer | spans, `scaled_threshold`, `submit` | job queue, workers |
| Job queue | `cpu/verus_job.*` | queue, `cursor`, `_watermark`, rate | `push`, `pop`, `mine_proportion` | pool |
| CPU worker | `cpu/verus_worker.*` | events, `continueMining`, `batchSize` | `work`, `try_mining`, `wake_up` | pool, `JanusMinerOpt` |
| CPU pool | `verus_pool.*` | events, `AllCount` | `push_job`, `pop_job`, `process` | workers, coordinator |
| Mining of candidates | `verusopt/verus_clhash_opt.*` | current header and key | `mine`, `mine_job` | worker |
| Coordinator | `device_pool.*` | events, `currentHeader`, `prevHash`, `cleanIndex`, poll timer, stratum data | `run`, `poll`, `assign_work`, `submit`, handlers of events | everything |
| Stratum connection | `stratum/connection*.*`, `stratum/messages.*` | socket, ids, lines to write | `run` (reconnects for ever), `handle_msg`, `submit` | coordinator, on its own thread |
| Job generators | `job.hpp`, `mine_job.*`, `stratum/job.*` | `nonce2`, extranonce | `generate_job` | GPU hasher |
| Node API | `api_call.*` | – | `get_mining`, `submit_block` | coordinator |
| Estimators | `hashrate.hpp`, `cpu/efficiency_estimator.hpp` | windows of samples | `register_hashes`, `hashrate` | GPU hasher, pool |
| Custom floats and targets | `shared/src/block/header/custom_float.hpp`, `difficulty.hpp` | – | `+=`, `*=`, `pow`, `TargetV2`, comparison | mining of candidates |
| Block body | `shared/src/block/body/view.*`, `mine_job.*` | the node's bytes | `BodyView`, `merkleRoot`, `set_random_seed` | job generators |
| Other shared data types | `shared/src/...` | values | heights, funds, worksums | passed through |

The life of a candidate: `set_work` installs a generator and starts the
devices; `KernelRunner::try_start` takes a range of nonces and a Buffer of the
ring; the kernel's results are read back into that Buffer; the completion
callback posts the `MinedValues` to the coordinator and starts the next kernel;
the coordinator queues them with `push_job` and wakes the workers; a worker
pops a batch of candidates, mines it and posts a success back to the
coordinator, which submits it.  When the last holder of a Buffer drops it, its
destructor gives the space back, possibly in the middle of any of these steps.

Threads: the coordinator (`MiningCoordinator::run`), one thread per CPU
worker, the callback threads of OpenCL, and in pool mode the network thread.

### What is hard about it

* Buffers are reference-counted and chained by weak and strong pointers; the
  count can reach zero, and the decision to free be taken, outside the ring's
  mutex.
* Kernels complete on threads of the OpenCL driver, while the coordinator (or
  the network thread) replaces their work; one statement of `reset_start`
  runs without the device's mutex.
* Mutexes are taken in different orders by different threads (ring and
  device, hasher and device), some while the coordinator holds `st.m`.
* The queue is filled and emptied in pieces, by workers whose batch size
  follows measured times and overflows.
* Sessions come and go while jobs of older sessions are still being mined.
* Numbers are computed in three places with three roundings (the band of the
  kernel, the part of it a worker looks at, the float that decides about a
  share), and bodies hold counts that need not fit their length.

`PROJECT.json` lists these hazards at their lines, with the property that
covers each or the reason why none does yet.

### What makes each part correct

* Ring: Buffers in use are disjoint, destruction is first in first out, an
  empty ring is free again, a refused allocation is called back, words read as
  hashes are hashes of one's own kernel.
* GPU hasher: no nonce of a job twice, no old work after `set_work`, no runner
  idle without a reason, work reaches the devices.
* Queue and workers: each candidate to one worker, in order; exact watermark;
  no lost wake-up; everything drained; rest when nothing is left.
* Coordinator: the devices come to mine the node's header, also after an
  outage or a blocked submission; clean indices tell outdated work from other
  work; nothing crosses over to the next session while it is submitted.
* Stratum: request ids unique, work of one session only, work for every session
  that lasts.
* Estimators: the total rate is the sum of the devices' rates; the CPU side's
  rate is the sum of one report of each worker.
* Thresholds: the band of a kernel is not wider than the ring's room allows, and
  a worker looks at its proportion of the band.
* Shares: the power of the hash is bracketed by powers of two, and a share
  meets the pool's difficulty.
* Bodies: the sections of a valid body tile it, and the merkle root binds each
  entry and the seed.

## Modules

* **`CyclicQueue`** – the ring and its Buffers.  Positions are those of the
  code (`i0 = i1 = Size` at the start).  `AllocBegin` is `alloc` up to
  `prev.lock()`; `AllocEnd` is the link and the end of the temporary reference;
  `newest # NoBuf` stands for the mutex that is held in between.  A
  destructor is three steps: `DecideFree` (the test on `next.use_count()`),
  `Free` (`free`), `Leave` (the member `next` is destroyed, which can make the
  successor expire).  The life of a Buffer is
  `unborn → alive → expired → freeing → leaving → unborn`, where `freeing` is
  skipped by the destructors that leave freeing to a successor's.  `older`,
  `overtaken` and `late` are history and change nothing.
* **`ResultWords`** – adds the words of the ring, as zero or not zero, the
  read-back of a kernel's results and the place where a worker looks for
  hashes.  The hash function is outside; what is used of it is that the kernel
  selects hashes of at least `C_CONSTANT`, hence not zero.
* **`GpuHasher`** – devices, their two runners, nonce ranges, the generator
  and `set_work`.  A `try_start` is a record in `attempt[d]`, present as long as
  the device's mutex is held; it goes through both runners, and through the
  stages of `get_worker_range` for each.  The ring is reduced to the number of
  its Buffers, and to the fact that an allocation may fail although there is
  room.
* **`CandidateFifo`** – what the CPU queue promises: candidates leave in
  order, each to one worker.
* **`VerusPool`** – the job queue and the workers.  `Push` and `WakeUp` are
  `push_job` of the coordinator's thread, which wakes the workers one after the
  other; `TakeEvents`, `Pop`/`PopNothing`/`PopAborts` and `Mine` are a worker's
  loop.  Batches remember where they were cut, so that the refinement
  `Fifo == INSTANCE CandidateFifo` can name each candidate.
* **`HasherRates`** – the rates of the devices, their total and the fraction,
  with the mutexes of the devices, of the hasher and of the ring, and `st.m` of
  the coordinator's events.  `attempt[d]` is the thread that holds the mutex of
  device d: a callback in `hashrate()` (`CallbackReads`, `CallbackStores`), on
  its way through `handle_finished_job` (`CallbackAdds` needs the hasher's mutex,
  `CallbackPushes`, which is `push_event`, needs `st.m`), or a `try_start` of
  whichever thread (`TryAborts`, `TrySkips`, `TakeAllocator`, `GenerateJob`,
  `Allocate`).  `coord` is the coordinator: idle, in `print_hashrate`, which `run`
  calls while it holds `st.m` (`BeginPrint`, `PrintReads`, `PrintStores`,
  `HashratesReturns`, `EndPrint`), or in `stop_mining` (`Stop`, `StopDevice`,
  `StopReturns`).  `setting` is the thread in `set_work` (`SetWork`,
  `NewGenerator`, `Activate`, `Start`, `SetWorkReturns`): the coordinator's when
  mining for a node, so that the two exclude each other, and the network thread,
  beside the coordinator, when mining for a pool (`mode`).  `freeing` is the
  thread that runs `allocation_possible` under the ring's mutex.  A step that
  would take a mutex is enabled only while no other thread holds it; the waits
  of the threads that are not enabled are what `CircularWaitsKnown` is about.
  Left out are mutexes that cannot be part of a circle: a runner's, which nobody
  asks for while a `try_start` keeps it, since its device's is held too and its
  kernel does not run; the job queue's (a worker that holds it can drop a Buffer,
  or report under `st.m`), for which only threads wait that hold none; and those
  of a worker, of `JobLock` and of the stratum connection, whose holders wait for
  none of these.  The rate that a device reports is any of `Rates` once it has
  snapshots.
* **`SpanMining`** – the loops of `mine` and `mine_job` over batches and the two
  spans of a Buffer, with `size_t` arithmetic.  One step is one span
  (`MineSpan`), up to a share (`FindShare`); `NextBatch` is the loop of `mine`.
  Both versions of `mine_job` have the same loop and are one definition here.
* **`StratumConnection`** – pool mode: the connections that follow each other,
  and what the miner knows of a session.  `conn` is where the network thread is
  in `Connection`'s life (`Construct`, `Run`, `Connect`, the two requests,
  `context.run`, `Destroy`); its handlers (`ReceiveNotify`, `ReceiveDifficulty`,
  `ReceiveSubscription`) include the installation of work that
  `handle_event` of the coordinator does on that thread.  Incrementing
  `id_counter` is a read and a write (`ReadIdCounter`/`Request`,
  `LockServer`/`WriteSubmission`), because two threads do it without a lock;
  `server.m` is held where `submitting.at = "write"`.  Values are reduced to the
  session they come from.
* **`Coordinator`** – `MiningCoordinator::run`, in either mode; it EXTENDS
  `StratumConnection`, whose actions become `NetworkStep` and `Submit`.  `at` is
  where the thread is: `Wake` takes the events and looks at the time,
  `HandleBlock`/`Posted` and `HandleShare`/`Submit` are the two `submit`s,
  `PollNode`/`PollPool` is `poll` with `assign_work` or `stop_mining`.  The node
  (its header and whether it answers) is the environment; a header is a parent
  and a body.  The GPU and CPU sides, which the modules above describe, are
  reduced to the set of jobs whose candidates are on their way.
* **`BlockBody`** – how a node's job gets its merkle root.  `GenerateJob` is the
  body as it comes, with any counts in it, and `BodyView`'s constructor for both
  structures of a body, which either throws ("malformed"), gives an invalid view
  or the places of the sections.  `HashEntries` and `HashLevel` are
  `merkleRoot`, one level of the tree at a time; a hash is reduced to the entries
  it binds and to whether the seed went into it.
* **`JanusShare`** – whether a candidate is a share: `CustomFloat` with its
  normalisation, sums and products, the cubic polynomials of `log2` and `pow2`,
  the floats of the two hashes, `TargetV2` of a difficulty and its comparison.
  The widths are parameters: mantissas of 12 to 32 bits and digits of any number
  below that, the code's 32 and 22 included.  `TakePower` computes the power,
  `Compare` multiplies it and compares.
* **`SelectionBand`** – the numbers of a candidate's way: how many nonces and
  results `try_start` asks for, the threshold it gives the kernel (with the
  wrap-around of `uint32_t`), what the kernel selects, `mine_proportion` and
  `scaled_threshold`, and what the worker looks at.
* **`WorkerRates`** – the way of the CPU side's rate: the workers' reports
  (`Trace`), their events taken by `process` (`TakeReports`), which are ignored
  when they are short (`Ignore`) or go into `AllCount` and `AverageEstimator`
  (`HandleReport`).
* **`MinerAlgorithms`** – the five parts above that one thread runs by itself
  (`SpanMining` among them) side by side.  They share no state, and a behaviour
  is one of one part.
* **`MC_…`** – values for the constants, nothing else.
* **`CyclicQueue_proofs`**, **`ResultWords_proofs`**, **`VerusPool_proofs`**,
  **`GpuHasher_proofs`**, **`HasherRates_proofs`**, **`Coordinator_proofs`**,
  **`MinerAlgorithms_proofs`** – theorems.  The proofs about `StratumConnection`
  are in `Coordinator_proofs`, since two of its steps are the coordinator's;
  those about spans, bodies, the band and the worker rates are in
  `MinerAlgorithms_proofs`.
* **`DataLemmas`** – lemmas about the operators on sequences and sums that the
  modules take from the community modules.

Definitions whose comment begins with "Faulty:" are variants of a definition
with a plausible mistake; they are used by no specification and serve to
confirm that a property notices the mistake (`mutants` in `PROJECT.json`).

## Runs

| Run | Configuration | What it shows |
|---|---|---|
| `ring` | `MC_CyclicQueue.cfg` | Overlap, leaks, refusals, order of destruction and the callback after a refusal, on a ring of 8 words |
| `words` | `MC_ResultWords.cfg` | Hashes read by workers are hashes, while destructors free in order |
| `words_race` | `MC_ResultWords_race.cfg` | and need not be when one is overtaken (finding 1) |
| `pool` | `MC_VerusPool.cfg` | Types, watermark, wake-ups, refinement of `CandidateFifo`; queue drained, workers come to rest |
| `pool_abort` | `MC_VerusPool_abort.cfg` | `batchSize` becomes zero (finding 2) |
| `gpu` | `MC_GpuHasher.cfg` | Two devices sharing generator and ring: nonces, old work, idle runners; `set_work` leads to kernels on the new work |
| `rates` | `MC_HasherRates.cfg` | For a node and for a pool: the total is the sum of the reports; no circular wait beyond the two known ones |
| `rates_stop` | `MC_HasherRates_stop.cfg` | `stop_mining` leaves a total that is not zero (finding 3) |
| `rates_race` | `MC_HasherRates_race.cfg` | A print makes the fraction negative (finding 4) |
| `algorithms` | `MC_MinerAlgorithms.cfg` | Which candidates `mine_job` looks at, misses and repeats; shares meet the difficulty; sections and root of a body; the band and the part a worker looks at; the CPU side's rate |
| `band` | `MC_SelectionBand.cfg` | The band is narrower than the fraction it is computed from (finding 5) |
| `coordinator` | `MC_Coordinator.cfg` | Work of one session only, shares in the session they were taken up in, request ids, clean indices; the devices get the node's header or the session's work in the end |

### Bounds

* Ring: 8 words (7 where words have values) and requests of 3, 5 and 21 words
  with three Buffers: grants that fit, that are split at the end, that begin at
  the start because one word is left at the end, that are cut, that fill the
  ring to the last word.  Three Buffers are the fewest with which one can be
  overtaken while another is in use.  Identities of Buffers are reused, so that
  behaviours are unbounded.
* `ring` and `words` do not explore beyond the first write of an overtaken
  destructor (constraint `BeforeLate`): the properties say nothing of those
  states, and `words_race` explores them.
* Pool: two workers, two jobs of up to three results: batches end within a
  job, at its end and beyond it.  The numbers of `adjust_batch_size` are scaled
  down; `batchSize` has 4 bits, is multiplied by 4, and the quotient can be 0,
  1 or more.  The code's are parameters of the module.  The proofs remove these
  bounds for all but the liveness.
* GPU: two devices, jobs of two nonces in ranges of one or two instead of 2^32,
  two calls of `set_work`, two jobs, a ring of two Buffers for four runners.
  Ranges wrap around and are cut, the ring refuses, and a job can be used up by
  either device.  The proofs remove these bounds for all but the liveness.
* Rates: both modes, two devices that report 0 or 2, a ring of two Buffers, one
  call of `stop_mining`, and prints and calls of `set_work` without bound. Two
  devices are what a circle of waits through two devices' mutexes needs, a
  refusal by the ring what makes `allocation_possible` run, and rates that come
  and go what makes differences of both signs. `rates` does not explore beyond
  the first meeting of a print with a callback inside `hashrate()` (constraint
  `BeforeRace`), after which the total means nothing; `rates_race` explores those
  states, with one device. Of a negative fraction it follows what happens while
  the total is still negative (`FractionOfTotal`), and with a pool only one
  device's rate changes (`PoolRates`), since the network thread handles none. The
  proofs remove the bounds.
* Spans: up to five candidates in each span, every batch in them, and a
  `size_t` of 11 values, the fewest that count the words of a span.  The proofs
  remove these bounds.
* Shares: floats of 12 bits instead of 32, targets of 6 instead of 22, the
  constants of the polynomials with as many of their 32 bits as fit; every first
  word the kernel passes on, VerusHashes with leading zeros, without, and of zeros only,
  difficulties below, at and between powers of two.  All seams of the arithmetic
  occur: sums of both signs, integers in `pow2`, exponents on both sides of zero.
  The proofs remove these bounds.
* Bodies: up to 210 bytes of which 200 are allowed, real sizes of the entries,
  counts up to 4: bodies that are too short at every place where the code looks
  or does not look, and trees of one to eight entries.  The proofs remove these
  bounds.
* Band: words of 12 bits; `C_CONSTANT` and the constant of `threshold()` are 20
  and 15, fractions below, at and above one.  The proof removes these bounds.
* Worker rates: two workers, five reports, a window of one total: reports that
  are too short, too small, repeated within a round, and more totals than the
  window keeps.  The proof removes these bounds.
* Coordinator: two tips with two templates each, two changes of the header (a
  tip can be left and come back, which needs clean indices to be told apart),
  one outage, two found hashes, two sessions: enough for a share to be taken up
  in one session and to reach the mutex in the next, for work to mix two
  sessions, and for a block to be posted during an outage.

### Deadlock

The checks of deadlock are switched off in all runs: these systems may come to
rest (nothing is pushed, no work is set, all counters have reached their
bounds).  What must not come to rest is said by the liveness properties.

### Fairness

In `CyclicQueue` and `VerusPool` threads that can run do (weak fairness of each
step), and workers drop their Buffers.  In `GpuHasher` one assumption is
enough: as long as some thread can take a step of its own, some thread does
(weak fairness of `WorkStep`, which leaves out only the call of `set_work`);
within the bounds nothing more is needed, since every behaviour comes to an end.
Kernels end.  Nothing obliges the environment to call `set_work`, a GPU to
deliver, or a device to allocate.

In `Coordinator` the thread's loop and the clock go on, a node that is down
comes back, the network thread connects and sends its requests (`run` of the
server is an endless loop), and a pool goes on sending notifies and answers
`subscribe`.  The last is the pool's doing, not the miner's; without it a
session need not have work at all.  No fairness is assumed for the end of a
connection, for hashes being found, or for changes of the node's header.

## Proofs
* `CyclicQueue_proofs!TypeCorrect`: `Spec => []TypeOK`.  The work is in the
  arithmetic of a grant: `PartLenBounds` (`alloc_part` gives no more than asked
  for and no more than there is), `GrantLengths` and `GrantInRing`.
* `CyclicQueue_proofs!FifoDestructionHolds`: `Spec => []FifoDestruction`.
  The property is not inductive.  The invariant `FifoInv` adds what the chain of
  pointers is for: a Buffer that follows one still alive has an owner that is
  alive (`FollowersOwned`), each Buffer has at most one owner and that is its
  immediate predecessor (`LinksSound`), `prev` is the youngest Buffer or none is
  alive (`PrevSound`), and `alloc` pins it whenever it is alive
  (`PinnedSound`).  From these follows `OlderDieFirst`: when the count of a
  Buffer reaches zero, no older one is alive.  `UnownedIsFirst` and
  `ExpiryKeepsOwners` are the two facts used by every step in which a Buffer
  expires.  TLC confirmed each part of the invariant before it was proved.
* `CyclicQueue_proofs!UsedDisjointHolds`, `DrainedIsEmptyHolds` and
  `FailureHasAFreeToComeHolds`: all three are about where the Buffers lie, which
  positions that wrap around do not say directly.  `LayoutInv` measures every
  position by its distance behind `i1` (`Gap`): as long as no overtaken
  destructor has written `i1`, the Buffers that are still to be freed follow each
  other in the order of their allocation, none begins before an older one's
  cursor, all end at or before `i0`, and the youngest ends exactly there
  (`YoungestAtEnd`).  A `free` shifts all distances by the same amount; a grant
  begins where the youngest ends, and a grant in an empty ring (`EmptyGrants`)
  starts from nothing.  TLC confirmed the invariant for rings of 3, 4, 7 and 9
  words before it was proved.
* `ResultWords_proofs!HashStartNonzeroInOrderHolds`: for rings of any size.
  The hashes that a kernel wrote must be where the worker looks for them, and
  must not have been overwritten by another kernel since.  For the former,
  `WordsInv` says that the first span of a Buffer in use has an odd number of
  words (the counter and whole pairs) and that the second one lies elsewhere
  (`Shaped`), which follows from how `alloc_part` keeps the parity of a request
  (`PartLenParity`); so the worker's words are the kernel's hashes
  (`HashesAtEvenIndices`).  The latter is `LayoutInv`, by which Buffers in use
  are disjoint.
* `VerusPool_proofs!NoLostWakeupHolds`: `Spec => []NoLostWakeup`, for any
  number of workers and any values of the other constants.  The strengthening
  is `KeepsWorking`: a worker that is not waiting has `continueMining` set, so
  that it looks at the queue again after mining.
* `VerusPool_proofs!WatermarkExactHolds` and `TypeOKHolds`. `PoolInv` adds to the
  two that a worker that mines holds what it popped (`HoldsWhileMining`). The work
  is the loop of `pop`, which the model writes as a recursive function of the
  turns: `PopState` is its loop invariant (the watermark is what is left of the
  queue, and the candidates of the batches made, followed by those left, are the
  ones that waited at the start), `PopTurn` one turn of the loop, `PoppedGood`
  what it leaves.
* `VerusPool_proofs!FifoImplemented`: `Spec => ImplementsFifo`, step by step: a
  push puts the job's candidates at the end of the abstract queue or stutters
  when there are none (`PushPuts`), a pop takes as many from its front as the
  batch has (`PopTakes`), the end of mining ends the batch (`MineDone`), every
  other step stutters.
* `MinerAlgorithms_proofs!WithinSpansHolds`, `MissedOnlyAcrossSeamHolds` and
  `TotalNonzeroHolds`: for spans of any size and any width of `size_t`.  The
  invariant `SpanInv` says where `offset` and `len` stand at each span
  (`AtFirst`, `AtSecond`: at the second span, `offset` is either zero or so far
  beyond the span, because it wrapped around, that nothing is looked at) and
  what the spans that are done have contributed.  `HereFirst` and `HereSecond`
  compute the candidates looked at, `StepToSecond` the step between the spans.
  `RepeatedOnlyBehindSeam` is a conjunct of the invariant.
* `GpuHasher_proofs!NoNonceTwiceHolds`, `FreshAfterSetWorkHolds`,
  `IdleOnlyIfRefusedHolds` and `TypeOKHolds`: for any number of devices, nonces,
  ranges, Buffers and calls of `set_work`.  The difficulty is that `reset_start`
  clears a device's job without its mutex, so that a `try_start` can find its job
  gone at any of its stages.  `StageInv` says what such a `try_start` has in hand
  beside the device's job; `OnceInv` that a job is in the hands of at most one
  device (as its tracker, or as what its `try_start` has seen) and that the
  nonces its tracker has left are untried (`RangeIsCutOff`: a range taken leaves
  the others apart from it, also around the end of the nonces); `FreshInv` says
  how new a job is by where `set_work` is with its device; `IdleInv` that a
  runner without a kernel was refused, is owed a call, or is about to be tried;
  `RoomInv` counts the Buffers.
* `HasherRates_proofs!CircularWaitsKnownHolds`: for any number of devices.
  `WaitInv` says who can be in a `try_start` (the thread that sets work only
  inside `set_work`, a `free` only inside `allocation_possible`, each for one
  device at a time) and who holds the ring's mutex.  A set of threads in which
  each waits for another one then contains, in this order, no coordinator that
  holds the hasher's mutex or `st.m`, since it sets no work meanwhile and waits
  for nobody; nobody who holds the ring's; no `free`; and so nobody
  (`NobodyInACircle`).
* `HasherRates_proofs!RateSumHolds` and `TypeOKHolds`: for any number of devices,
  any rates, Buffers and calls of `stop_mining`. `RateInv` holds until a print has
  met a callback inside `hashrate()` or an assertion has failed: inside
  `hashrate()`, a callback or a print holds the difference to the rate that is
  still stored (`StoresKnown`, `PrintsKnown`), and outside `stop_mining` the
  total, with the differences that callbacks carry to it, is the sum of the
  devices' rates (`TotalKnown`). Within `stop_mining` the sum is wrong (finding
  3); `StoppedKnown` says that the devices stopped so far have just the rates that
  callbacks carry, so that `TotalKnown` holds again when the assertion at the end
  of the call finds a total of zero. For the types the difficulty is that the
  ring's counter stays within its capacity: `BufferInv` says that every callback
  has the Buffer of its kernel, and that there is room for the one a thread is
  about to allocate.
* `Coordinator_proofs!OneSessionHolds`, `SentInSessionTakenUpHolds`,
  `UniqueIdsHolds`, `CleanIndexTellsParentHolds`, `StandsStillKnownHolds` and
  `TypeOKHolds`: for any number of sessions, of jobs on their way, of changes and
  outages.  `SessionInv` says that whatever is known of a session is the current
  one's; `SubmitInv` that a submission that holds the server's mutex is for the
  current session; `IdsInv` that increments of `id_counter` do not overlap until
  a submission precedes the session's own requests; `JobsInv` that no job's
  clean index is above the coordinator's and that those with the same one extend
  `prevHash`; `PollInv` what `poll` remembers while the devices stand still.
* `MinerAlgorithms_proofs!BodySectionsHolds` and `RootBindsBodyHolds`: for entries
  of any size, and bodies and counts without bound. A level of the tree binds the
  entries in pieces of the same width, the last one shorter (`LevelOf`, `Fits`);
  `UpperLevel` says that hashing a level doubles the width, and the root is the
  level of one piece.
* `MinerAlgorithms_proofs!BandFitsRoomHolds`: for words of any width and all rates
  and requests.  `CountsFit` bounds the numbers a kernel is started with,
  `BandWidth` the band (also when the threshold wraps), and `LookedPart` what
  remains of it for a worker; all three are facts about truncating divisions
  (`Quotient`, `QuotientBound`), each used on numbers computed one after the
  other.
* `MinerAlgorithms_proofs!RoundsAddUpHolds`: for any number of workers and reports
  and any window.  `RoundKnown` says what `AllCount` keeps between two totals: its
  array has exactly the first report of each worker since the last total, and its
  counter is how many those are; so the total taken when the counter reaches
  the number of workers is the sum of one report of each (`HandleKeeps`).
* `MinerAlgorithms_proofs!PowBracketedHolds` and `ShareMeetsDifficultyHolds`: for
  mantissas of 12 to 32 bits, all hashes and all difficulties.  Floats with a
  leading one are closed under the operations, with the bounds on each mantissa
  that truncation leaves (`ProductOfFloats`, `SumSameSign`, `SumOtherSign`,
  `ShiftedLeft`).  The coefficients of the polynomials are known as numbers at 12
  bits, and beyond by bounds linear in the first 16 bits (`PowNumbers`,
  `LogNumbers`).  From these: `pow2_fraction` of a number up to one lies in
  [1, 2) (`PowFraction`), and the cubic of `log2` is nowhere positive in spite of
  every truncation (`LogPolynomial`, `LogBound`, `LogNegative`), so that the power
  is at most one (`Pow2OfNegative`).  Of a product of two floats and a target,
  `BelowDecides` says what the comparison of digits and exponents decides.  The
  invariant `ShareInv` adds to both properties that the power in use is a float
  of at most one (`PowerKnown`).

`DataLemmas` holds what several of these need about data: that `SumFunction` and
`FlattenSeq`, which the community modules compute with recursive functions and
folds, have their usual properties (a sum changes by what one term changes by,
flattening respects concatenation, a loop's invariant holds where it stops). The
library's induction theorems take an operator as a parameter, which the provers
cannot instantiate; the induction is done by the least number of a set of
counterexamples (`LeastNumber`, `Induction`), which takes a set only.

The theorems rest only on the assumptions in the modules: `Size >= 3` and odd
requests of at least three words, which the code asserts; at least one worker; a
`size_t` that can count the words of a span, since they are in memory; finitely
many devices and ranges of at least one nonce; a value `None` that is no
session's or node's, and in `HasherRates` no attempt; sizes of entries above zero;
a threshold that counts from no more than `C_CONSTANT`; parameters of
`adjust_batch_size` and bounds that are natural numbers; and a rate above zero
for a report that counts (`RateAssumption`: such a report has at least one
candidate per second); and of a share, bytes of three to eight bits, four of
which make a mantissa (with mantissas of four bits the polynomials are too coarse
for `PowBracketed`; of eight, TLC finds that it holds, and the bounds used in the
proof do not reach that far), hashes that consist of bytes, and difficulties with
normalised mantissas, as `CustomFloat` keeps them.

Only model-checked: liveness, as fairness and `ENABLED` are beyond the prover.
Each invariant that a run checks is stated by a theorem.

## Findings

1. **A late destructor corrupts the ring.**  `~Buffer` (`cyclic_queue.hpp:61`)
   takes its decision, and the count reaches zero, outside the mutex.  If the
   thread that drops Buffer A is delayed, B (not linked to A, because
   `prev.lock()` fails) can be allocated, dropped and freed before A; A's `free`
   then moves `i1` back.  Later grants overlap Buffers in use, and the assertion
   `hashStart != 0` of `mine_job` can fail.  All properties of the ring hold as
   long as this has not happened (`~late`).
2. **`batchSize` can become zero** (`cpu/verus_worker.cpp:25-27`), upon which
   `assert(M > 0)` in `JobQueue::pop` fails.

3. **`stop_mining` adds where it should subtract** (`gpu/opencl_hasher.cpp:90`):
   the total is twice the sum of the rates afterwards, and
   `assert(totalHashrate == 0)` fails whenever a device had reported a rate.
4. **The fraction can become negative.**  `hashrates()`
   (`gpu/opencl_hasher.cpp:237-245`) reports for a device without its mutex.
   Between a callback's report and the addition of its difference, a print that
   sees the rate vanish subtracts what has not been added yet; inside
   `hashrate()` both subtract the same `prevHashrate`, and the error stays.  The
   fraction computed meanwhile fails `assert(fraction > 0.0)` in `try_start`.

5. **The band is narrower than the fraction it is made of.**  `threshold()`
   (`gpu/opencl_hasher.hpp:116`) counts the width of the band from `0x00FFFFFF`,
   the kernel selects from `C_CONSTANT = 0x147ae14` on (`kernel.cl`,
   `c_constant.hpp`).  The band ends 4697621 below where the fraction puts it,
   about 0.0011 of all hashes; where the CPU side's rate is less than that part
   of the GPUs', the band is empty and the CPU side gets no candidates.  With both
   constants equal the property holds.

Observations without a run of their own: a device whose `try_start` finds the
ring full (`available() == 0`) is not called back (only a failed `alloc` is),
so that it waits for another kernel or new work; a Buffer that fails to be
allocated costs its range of nonces; `mine_job` misses the candidates of the
second span of every batch that begins in the first, and a batch that begins
behind the first candidate of the second span looks at the beginning of that
span again (`SpanMining` says that nothing else is missed or repeated); the
circular waits that `CircularWaitsKnown` allows, of `stop_mining` with a callback
and of `allocation_possible` with a `try_start`, are possible deadlocks.

Observations about the algorithms: `available()` counts words, but `try_start`
uses it as a number of results (`alloc` cuts the Buffer, so that this is
harmless); the threshold can wrap around when the last range of a job is cut below
the number of results, to a smaller band; a body of the older structure that is
valid and has no entries makes `merkleRoot` read the front of an empty vector
(`BlockBody` leaves this out; the node does not send one); `gen_extra2` is right
for an extranonce2 of four bytes only; `set_timing` takes a rate of zero for no
report, which `RateAssumption` excludes (a worker that processes at least 100
candidates in a batch of a tenth of a second has a rate above zero).

Two more of the float's: `TargetV2` cuts the zeros of a target at `3 * 256`,
which `TargetOf` leaves out, as no product of two hashes of 32 bytes has as many;
and `ShareMeetsDifficulty` is about the difficulty of a pool, which is a double,
not about the compact target of a block.

Observations about the coordinator, which its properties state or exclude: after
an outage the devices stay stopped if the node gives the header it gave before,
until that header changes (`StandsStillKnown` says that this is the only case); in
pool mode `poll` returns before it sets the next time, so that from half a second
after the start the coordinator goes round its loop without waiting; a share found
for a job of an earlier session and taken up in a later one is sent in the later
one (only the connection's id is compared); a share submitted before `run` has
reset `id_counter` takes an id that is used again, which `UniqueIds` leaves out
(`early`) and nothing in the source excludes; the devices go on with the last
session's work while there is no connection; blocks of one batch of events are
posted one after the other, the later ones possibly to a node whose tip has
changed meanwhile.

## Not modelled

* Hash functions and OpenCL kernels: arithmetic without control.  What the
  models use of them: the kernel selects hashes of the band (`SelectionBand`),
  counts results and writes them (`ResultWords`), and hashes bind what is hashed
  (`BlockBody`).
* Third-party libraries (`thirdparty/`), which are by far the most of the
  repository's lines: the models describe what the miner relies on (a loop that
  runs posted handlers, `weak_ptr`, callbacks of the driver).
* Code of the node that the repository shares and the miner does not call:
  heights, funds, nonces of accounts, worksums, `TargetV1`, transaction
  handling.  A model of it could be compared with nothing that the program does.
* Parsing and formatting of messages, HTTP and JSON, logs, command line,
  start-up, and shutdown, which nothing triggers before the process ends.
* Files that are not built (`gpu/worker_old.*`, `main2.cpp`,
  `gpu/disabled.cpp`, `cpu/mine.*`).
* `HashrateWatcher`'s window over real time: `HasherRates` lets a device report
  any rate.  The data race of a print and a callback on its deque is contained in
  that; memory safety below the level of the modules (use of a destroyed tracker
  in `get_worker_range`) is noted as a hazard only.
* One composition of everything.  `Coordinator` with `GpuHasher` and `VerusPool`
  in place of its set of jobs is too large for TLC: the `gpu` and `coordinator`
  runs each take two minutes by themselves.  The interfaces agree as follows.
  What the coordinator calls `set_work` is `SetWork` of `GpuHasher`, whose
  theorem `FreshAfterSetWork` says what `Coordinator` assumes of `work`, that new
  kernels are on it.  Jobs on their way stay candidates until a worker drops
  them, in `Coordinator` as in `VerusPool`, where none is lost or mined twice
  (`ImplementsFifo`).  The callback of the ring that `GpuHasher` waits for is
  `CallbackComes` of `CyclicQueue`.
