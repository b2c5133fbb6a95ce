----------------------------- MODULE GpuHasher -----------------------------
(***************************************************************************)
(* How GPUs get work (gpu/opencl_hasher.{hpp,cpp}): every device has two   *)
(* kernel runners, so that one kernel computes while the results of the    *)
(* other are read.  A runner that starts takes a range of nonces of the    *)
(* device's job; jobs come from the generator set_work installs.           *)
(*                                                                         *)
(* Three kinds of threads run try_start, each under the device's mutex:    *)
(* the OpenCL callback of a finished kernel, the caller of set_work, and   *)
(* the thread whose release of a ring Buffer calls allocation_possible.    *)
(* reset_start clears the device's job without that mutex: get_worker_range*)
(* is therefore cut where the clearing can fall.  The ring is reduced to   *)
(* the number of Buffers it holds (its own module is CyclicQueue).         *)
(***************************************************************************)
EXTENDS Integers, FiniteSets

CONSTANTS
    Device,    \* the GPUs
    Nonces,    \* nonces of a job (2^32)
    Chunks,    \* how many nonces a runner can ask for
    Capacity,  \* Buffers the ring holds
    MaxWork,   \* bound: calls of set_work
    MaxJobs    \* bound: jobs generated

ASSUME DeviceAssumption == Device # {} /\ IsFiniteSet(Device)
ASSUME SizeAssumption ==
    /\ Nonces \in Nat \ {0} /\ Capacity \in Nat
    /\ MaxWork \in Nat /\ MaxJobs \in Nat
    /\ Chunks \subseteq Nat \ {0}

Runner == {1, 2}
Nonce  == 0 .. Nonces - 1

(* A job's identity: the work it was generated from and the value of the   *)
(* extranonce (nonce2 of the body in node mode), which is counted up.      *)
Job == [work : 1 .. MaxWork, extra : 1 .. MaxJobs]

(* JobNonceTracker: the ranges given out so far begin at offset, a random  *)
(* nonce, and wrap around.                                                 *)
Tracker == [job : Job, offset : Nonce, remaining : 0 .. Nonces]

None == [none |-> TRUE]

VARIABLES
    work,      \* the generator, by the number of the set_work call
    extra,     \* jobs generated so far
    tracker,   \* per device: job, an optional<JobNonceTracker>
    active,    \* devices that may start kernels
    running,   \* per device and runner: currentJob, the job and its nonces
    finished,  \* per device: runners whose callback waits for the device
    attempt,   \* per device: the try_start that holds its mutex
    setter,    \* set_work: what it does next, to which device
    todo,      \* set_work: the devices it has not come to
    held,      \* Buffers with results the workers have not dropped
    failed,    \* failedAlloc of the ring
    calling,   \* allocation_possible: devices it has still to try
    tried,     \* history: (job, nonce) pairs given to a kernel
    twice,     \* history: a pair was given to a kernel again
    refused    \* history: per device, runners the ring refused last time

jobVars  == <<work, extra, tracker>>
devVars  == <<active, running, finished>>
setVars  == <<setter, todo>>
ringVars == <<held, failed, calling>>
ghosts   == <<tried, twice, refused>>
vars == <<jobVars, devVars, attempt, setVars, ringVars, ghosts>>

JobNonceRange == [job : Job, nonces : SUBSET Nonce]

(* A try_start is at runner `runner`; it looks at the device's job         *)
(* ("check"), has generated one and is to store it ("assign"), or is about *)
(* to take a range of it ("range").                                        *)
Attempt ==
    [by : {"callback", "set_work", "ring"}, runner : Runner,
     stage : {"check", "assign", "range"}, seen : Tracker \cup {None}]

TypeOK ==
    /\ work \in 0 .. MaxWork /\ extra \in 0 .. MaxJobs
    /\ tracker \in [Device -> Tracker \cup {None}]
    /\ active \in SUBSET Device
    /\ running \in [Device -> [Runner -> JobNonceRange \cup {None}]]
    /\ finished \in [Device -> SUBSET Runner]
    /\ attempt \in [Device -> Attempt \cup {None}]
    /\ setter \in [stage : {"idle", "next"}]
                   \cup [stage : {"reset", "start"}, device : Device]
    /\ todo \in SUBSET Device
    /\ held \in 0 .. Capacity /\ failed \in BOOLEAN
    /\ calling \in SUBSET Device
    /\ tried \in SUBSET (Job \X Nonce) /\ twice \in BOOLEAN
    /\ refused \in [Device -> SUBSET Runner]

Init ==
    /\ work = 0 /\ extra = 0
    /\ tracker = [d \in Device |-> None]
    /\ active = {}
    /\ running = [d \in Device |-> [r \in Runner |-> None]]
    /\ finished = [d \in Device |-> {}]
    /\ attempt = [d \in Device |-> None]
    /\ setter = [stage |-> "idle"] /\ todo = {}
    /\ held = 0 /\ failed = FALSE /\ calling = {}
    /\ tried = {} /\ twice = FALSE
    /\ refused = [d \in Device |-> {}]

(***************************************************************************)
(* try_start                                                               *)
(***************************************************************************)
Unlocked(d) == attempt[d] = None
Began(d, who) ==
    attempt' = [attempt EXCEPT
        ![d] = IF d \in active
               THEN [by |-> who, runner |-> 1, stage |-> "check", seen |-> None]
               ELSE None]

(* The first runner is done, the second follows; then the mutex is free.   *)
NextRunner(d) ==
    IF attempt[d].runner = 1
    THEN [by |-> attempt[d].by, runner |-> 2, stage |-> "check", seen |-> None]
    ELSE None

(* The attempt goes on with its runner.                                    *)
GoesOn(d, stage, seen) ==
    [by |-> attempt[d].by, runner |-> attempt[d].runner, stage |-> stage, seen |-> seen]

Kernels == {k \in Device \X Runner : running[k[1]][k[2]] # None}
InUse == held + Cardinality(Kernels)
Full  == InUse >= Capacity

(* The Allocator keeps the ring's mutex from the look at available() to    *)
(* the allocation, and the thread that runs allocation_possible keeps it   *)
(* all the while.                                                          *)
AllocatorOf(d) == attempt[d] # None /\ attempt[d].stage # "check"
CallbackRuns   == calling # {} \/ \E d \in Device : attempt[d] # None /\ attempt[d].by = "ring"
RingUnlocked   == ~CallbackRuns /\ \A d \in Device : ~AllocatorOf(d)
CanLockRing(d) ==
    /\ \A e \in Device : ~AllocatorOf(e)
    /\ CallbackRuns => attempt[d].by = "ring"

Looking(d) == attempt[d] # None /\ attempt[d].stage = "check"
Idle(d) == running[d][attempt[d].runner] = None

(* The runner still has a kernel.                                          *)
SkipBusy(d) ==
    /\ Looking(d) /\ ~Idle(d)
    /\ attempt' = [attempt EXCEPT ![d] = NextRunner(d)]
    /\ UNCHANGED <<jobVars, devVars, setVars, ringVars, ghosts>>

(* available() is 0: the runner gives up, and nobody is told.              *)
Refuse(d) ==
    /\ Looking(d) /\ CanLockRing(d) /\ Idle(d) /\ Full
    /\ attempt' = [attempt EXCEPT ![d] = NextRunner(d)]
    /\ refused' = [refused EXCEPT ![d] = @ \cup {attempt[d].runner}]
    /\ UNCHANGED <<jobVars, devVars, setVars, ringVars, tried, twice>>

(* Faulty: the generator does not count the extranonce up.                 *)
GenerateAgain(d) ==
    /\ Looking(d) /\ CanLockRing(d) /\ Idle(d) /\ ~Full
    /\ tracker[d] = None
    /\ work > 0
    /\ \E o \in Nonce :
         attempt' = [attempt EXCEPT ![d] =
            GoesOn(d, "assign", [job |-> [work |-> work, extra |-> 1],
                                 offset |-> o, remaining |-> Nonces])]
    /\ UNCHANGED <<work, extra, tracker, devVars, setVars, ringVars, ghosts>>

(* get_worker_range: the device has no job and generates one.              *)
Generate(d) ==
    /\ Looking(d) /\ CanLockRing(d) /\ Idle(d) /\ ~Full
    /\ tracker[d] = None
    /\ work > 0 /\ extra < MaxJobs
    /\ extra' = extra + 1
    /\ \E o \in Nonce :
         attempt' = [attempt EXCEPT ![d] =
            GoesOn(d, "assign", [job |-> [work |-> work, extra |-> extra + 1],
                                 offset |-> o, remaining |-> Nonces])]
    /\ UNCHANGED <<work, tracker, devVars, setVars, ringVars, ghosts>>

(* get_worker_range: the device has a job.                                 *)
SeeJob(d) ==
    /\ Looking(d) /\ CanLockRing(d) /\ Idle(d) /\ ~Full
    /\ tracker[d] # None
    /\ attempt' = [attempt EXCEPT ![d] = GoesOn(d, "range", tracker[d])]
    /\ UNCHANGED <<jobVars, devVars, setVars, ringVars, ghosts>>

Assign(d) ==
    /\ attempt[d] # None /\ attempt[d].stage = "assign"
    /\ tracker' = [tracker EXCEPT ![d] = attempt[d].seen]
    /\ attempt' = [attempt EXCEPT ![d] = GoesOn(d, "range", attempt[d].seen)]
    /\ UNCHANGED <<work, extra, devVars, setVars, ringVars, ghosts>>

(* get_job: the next N nonces, fewer if fewer remain.                      *)
Taken(t, N) == IF N < t.remaining THEN N ELSE t.remaining
NoncesOf(t, N) ==
    {(t.offset + i) % Nonces : i \in 0 .. Taken(t, N) - 1}
(* Faulty: the offset is wider than a nonce and does not wrap around.      *)
AfterUnwrapped(t, N) ==
    IF Taken(t, N) = t.remaining THEN None
    ELSE [job |-> t.job, offset |-> t.offset + Taken(t, N),
          remaining |-> t.remaining - Taken(t, N)]

After(t, N) ==
    IF Taken(t, N) = t.remaining THEN None
    ELSE [job |-> t.job, offset |-> (t.offset + Taken(t, N)) % Nonces,
          remaining |-> t.remaining - Taken(t, N)]

(* get_worker_range takes the range, and a Buffer is allocated for it.  If *)
(* set_work has cleared the job meanwhile, the destroyed tracker is read,  *)
(* which still holds what it held.  The allocation can fail although the   *)
(* ring has room; the range is then lost.                                  *)
TakeRange(d) ==
    /\ attempt[d] # None /\ attempt[d].stage = "range"
    /\ \E N \in Chunks :
        LET t      == attempt[d].seen
            nonces == NoncesOf(t, N)
            r      == attempt[d].runner
            pairs  == {t.job} \X nonces
        IN  /\ tracker' = [tracker EXCEPT
                             ![d] = IF @ = None THEN None ELSE After(t, N)]
            /\ \/ /\ running' = [running EXCEPT
                                   ![d][r] = [job |-> t.job, nonces |-> nonces]]
                  /\ twice' = (twice \/ pairs \cap tried # {})
                  /\ tried' = tried \cup pairs
                  /\ refused' = [refused EXCEPT ![d] = @ \ {r}]
                  /\ UNCHANGED failed
               \/ /\ InUse > 0
                  /\ failed' = TRUE
                  /\ refused' = [refused EXCEPT ![d] = @ \cup {r}]
                  /\ UNCHANGED <<running, tried, twice>>
    /\ attempt' = [attempt EXCEPT ![d] = NextRunner(d)]
    /\ UNCHANGED <<work, extra, active, finished, setVars, held, calling>>

(***************************************************************************)
(* Kernels and their callbacks                                             *)
(***************************************************************************)
(* on_complete takes the job out of the runner before it asks for the      *)
(* device's mutex.                                                         *)
KernelEnds(d, r) ==
    /\ running[d][r] # None /\ r \notin finished[d]
    /\ running' = [running EXCEPT ![d][r] = None]
    /\ finished' = [finished EXCEPT ![d] = @ \cup {r}]
    /\ held' = held + 1
    /\ UNCHANGED <<jobVars, active, attempt, setVars, failed, calling, ghosts>>

(* Faulty: only the values are passed on, no runner is tried.              *)
HandleFinishedOnly(d, r) ==
    /\ r \in finished[d] /\ Unlocked(d)
    /\ finished' = [finished EXCEPT ![d] = @ \ {r}]
    /\ UNCHANGED <<jobVars, active, running, attempt, setVars, ringVars, ghosts>>

(* handle_finished_job: the mined values are passed to the coordinator as  *)
(* an event, and both runners are tried.                                   *)
HandleFinished(d, r) ==
    /\ r \in finished[d] /\ Unlocked(d)
    /\ finished' = [finished EXCEPT ![d] = @ \ {r}]
    /\ Began(d, "callback")
    /\ UNCHANGED <<jobVars, active, running, setVars, ringVars, ghosts>>

(* The coordinator or a worker drops the last reference to a Buffer; a     *)
(* failed allocation is made up for.                                       *)
DropBuffer ==
    /\ held > Cardinality({k \in Device \X Runner : k[2] \in finished[k[1]]})
    /\ RingUnlocked
    /\ held' = held - 1
    /\ failed' = FALSE
    /\ calling' = IF failed THEN Device ELSE {}
    /\ UNCHANGED <<jobVars, devVars, attempt, setVars, ghosts>>

AllocationPossible(d) ==
    /\ d \in calling /\ Unlocked(d)
    /\ \A e \in Device : attempt[e] # None => attempt[e].by # "ring"
    /\ calling' = calling \ {d}
    /\ Began(d, "ring")
    /\ UNCHANGED <<jobVars, devVars, setVars, held, failed, ghosts>>

(***************************************************************************)
(* set_work                                                                *)
(***************************************************************************)
SetWork ==
    /\ setter.stage = "idle" /\ work < MaxWork
    /\ work' = work + 1
    /\ setter' = [stage |-> "next"] /\ todo' = Device
    /\ UNCHANGED <<extra, tracker, devVars, attempt, ringVars, ghosts>>

(* reset_start: active is set under the device's mutex ...                 *)
Activate(d) ==
    /\ setter.stage = "next" /\ d \in todo /\ Unlocked(d)
    /\ active' = active \cup {d}
    /\ setter' = [stage |-> "reset", device |-> d]
    /\ todo' = todo \ {d}
    /\ UNCHANGED <<jobVars, running, finished, attempt, ringVars, ghosts>>

(* Faulty: reset_start keeps the device's job.                             *)
KeepJob ==
    /\ setter.stage = "reset"
    /\ setter' = [stage |-> "start", device |-> setter.device]
    /\ UNCHANGED <<jobVars, devVars, attempt, todo, ringVars, ghosts>>

(* ... the job is cleared without it ...                                   *)
ClearJob ==
    /\ setter.stage = "reset"
    /\ tracker' = [tracker EXCEPT ![setter.device] = None]
    /\ setter' = [stage |-> "start", device |-> setter.device]
    /\ UNCHANGED <<work, extra, devVars, attempt, todo, ringVars, ghosts>>

(* Faulty: reset_start does not call try_start.                            *)
StartNothing ==
    /\ setter.stage = "start" /\ Unlocked(setter.device)
    /\ setter' = [stage |-> "next"]
    /\ UNCHANGED <<jobVars, devVars, attempt, todo, ringVars, ghosts>>

(* ... and try_start takes it again.                                       *)
StartDevice ==
    /\ setter.stage = "start" /\ Unlocked(setter.device)
    /\ Began(setter.device, "set_work")
    /\ setter' = [stage |-> "next"]
    /\ UNCHANGED <<jobVars, devVars, todo, ringVars, ghosts>>

SetWorkReturns ==
    /\ setter.stage = "next" /\ todo = {}
    /\ \A d \in Device : attempt[d] # None => attempt[d].by # "set_work"
    /\ setter' = [stage |-> "idle"]
    /\ UNCHANGED <<jobVars, devVars, attempt, todo, ringVars, ghosts>>

Try(d) == \/ SkipBusy(d) \/ Refuse(d) \/ Generate(d) \/ SeeJob(d)
          \/ Assign(d) \/ TakeRange(d)

SetStep == (\E d \in Device : Activate(d)) \/ ClearJob \/ StartDevice \/ SetWorkReturns

Next ==
    \/ \E d \in Device :
          \/ Try(d) \/ AllocationPossible(d)
          \/ \E r \in Runner : KernelEnds(d, r) \/ HandleFinished(d, r)
    \/ DropBuffer
    \/ SetWork \/ SetStep

Spec == Init /\ [][Next]_vars

(* Some thread that can take a step of its own takes one: within the       *)
(* bounds every behaviour comes to an end, so that no fairness of one      *)
(* thread towards another is needed.  Nobody has to call set_work.         *)
WorkStep ==
    \/ \E d \in Device :
          \/ Try(d) \/ AllocationPossible(d)
          \/ \E r \in Runner : KernelEnds(d, r) \/ HandleFinished(d, r)
    \/ DropBuffer
    \/ SetStep

FairSpec == Spec /\ WF_vars(WorkStep)

(***************************************************************************)
(* Properties                                                              *)
(***************************************************************************)
(* No nonce of a job is tried twice: neither by the two runners of a       *)
(* device, nor by two devices, nor after the nonces wrapped around.        *)
NoNonceTwice == ~twice

(* When set_work has returned, every device is on the new work: the job it *)
(* takes ranges from is of the newest work, whatever callbacks ran in      *)
(* between, although reset_start clears the old job without the device's   *)
(* mutex and a callback may be anywhere in get_worker_range when it does.  *)
FreshAfterSetWork ==
    setter.stage = "idle" =>
        \A d \in Device : /\ tracker[d] # None => tracker[d].job.work = work
                          /\ attempt[d] # None /\ attempt[d].seen # None =>
                                attempt[d].seen.job.work = work

(* A runner of an active device stands idle for one reason only: the ring  *)
(* had no room when it was last tried.  (It is not tried again before      *)
(* another kernel of its device ends or set_work is called.)               *)
Settled(d) ==
    /\ d \in active /\ Unlocked(d)
    /\ finished[d] = {} /\ d \notin calling
    /\ setter.stage \in {"reset", "start"} => setter.device # d
IdleOnlyIfRefused ==
    \A d \in Device : Settled(d) =>
        \A r \in Runner : running[d][r] = None => r \in refused[d]

(* Each set_work leads to a kernel of every device on work at least that   *)
(* new, unless the ring is full, the jobs of this behaviour are used up    *)
(* when a try_start needs one, or a callback of the ring runs: it can wait *)
(* for a device for ever while that device waits for the ring.             *)
OutOfJobs == extra = MaxJobs /\ \E e \in Device : Looking(e) /\ tracker[e] = None
WorkReachesDevices ==
    \A k \in 1 .. MaxWork, d \in Device :
        (work = k) ~> \/ refused[d] # {}
                      \/ OutOfJobs \/ CallbackRuns
                      \/ \E r \in Runner : /\ running[d][r] # None
                                           /\ running[d][r].job.work >= k
=============================================================================
