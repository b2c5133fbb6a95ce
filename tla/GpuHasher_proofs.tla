--------------------------- MODULE GpuHasher_proofs ---------------------------
(***************************************************************************)
(* For any number of devices, nonces, Buffers, calls and jobs: no nonce of *)
(* a job is given to a kernel twice (NoNonceTwice), the devices are on the *)
(* new work when set_work has returned (FreshAfterSetWork), a runner of a  *)
(* settled device is idle only when the ring refused it                    *)
(* (IdleOnlyIfRefused), and the types hold.                                *)
(*                                                                         *)
(* The invariant has a part for each: TypeInv; StageInv, what a try_start  *)
(* has in hand beside its device's job, which set_work can clear under it; *)
(* RoomInv, that one thread at a time allocates in the ring, after it saw  *)
(* room; FreshInv, how new a job is by where set_work is with its device;  *)
(* IdleInv, that an idle runner was refused or will be tried; OnceInv,     *)
(* that a job is in the hands of one device and what its tracker has left  *)
(* is untried.                                                             *)
(***************************************************************************)
EXTENDS GpuHasher, FiniteSetTheorems, TLAPS

LEMMA NoneFacts == None \notin Tracker /\ None \notin Attempt /\ None \notin JobNonceRange
  <1>1. "job" \notin DOMAIN None /\ "by" \notin DOMAIN None
    BY DEF None
  <1>2. \A t \in Tracker \cup JobNonceRange : "job" \in DOMAIN t
    BY DEF Tracker, JobNonceRange
  <1>3. \A a \in Attempt : "by" \in DOMAIN a
    BY DEF Attempt
  <1> QED
    BY <1>1, <1>2, <1>3

LEMMA ModRange == \A x \in Nat : x % Nonces \in Nonce
  BY SizeAssumption DEF Nonce

(* A nonce wraps around behind the last one.                               *)
LEMMA Wrap ==
    \A x \in Nat : x < 2 * Nonces =>
        x % Nonces = IF x < Nonces THEN x ELSE x - Nonces
  BY SizeAssumption

-----------------------------------------------------------------------------
(* The types, but for the ring's capacity and the flags.                   *)
TypeInv ==
    /\ work \in 0 .. MaxWork /\ extra \in 0 .. MaxJobs
    /\ tracker \in [Device -> Tracker \cup {None}]
    /\ active \in SUBSET Device
    /\ running \in [Device -> [Runner -> JobNonceRange \cup {None}]]
    /\ finished \in [Device -> SUBSET Runner]
    /\ attempt \in [Device -> Attempt \cup {None}]
    /\ setter \in [stage : {"idle", "next"}]
                   \cup [stage : {"reset", "start"}, device : Device]
    /\ todo \in SUBSET Device
    /\ held \in Nat
    /\ calling \in SUBSET Device
    /\ tried \in SUBSET (Job \X Nonce)
    /\ refused \in [Device -> SUBSET Runner]

(* A try_start that holds the device's mutex.                              *)
LEMMA AttemptFields ==
    ASSUME TypeInv, NEW d \in Device, attempt[d] # None
    PROVE  /\ attempt[d] \in Attempt
           /\ attempt[d].by \in {"callback", "set_work", "ring"}
           /\ attempt[d].runner \in Runner
           /\ attempt[d].stage \in {"check", "assign", "range"}
           /\ attempt[d].seen \in Tracker \cup {None}
  BY DEF TypeInv, Attempt

LEMMA NextRunnerType ==
    ASSUME TypeInv, NEW d \in Device, attempt[d] # None
    PROVE  /\ NextRunner(d) \in Attempt \cup {None}
           /\ attempt[d].runner = 1 =>
                NextRunner(d) = [by |-> attempt[d].by, runner |-> 2,
                                 stage |-> "check", seen |-> None]
           /\ attempt[d].runner = 2 => NextRunner(d) = None
  BY AttemptFields DEF NextRunner, Attempt, Runner

(* What get_job gives and what it leaves.                                  *)
LEMMA TakenBounds ==
    ASSUME NEW t \in Tracker, NEW N \in Chunks
    PROVE  /\ Taken(t, N) \in 0 .. t.remaining
           /\ NoncesOf(t, N) \subseteq Nonce
           /\ After(t, N) \in Tracker \cup {None}
           /\ After(t, N) # None =>
                /\ After(t, N).job = t.job
                /\ After(t, N).offset = (t.offset + Taken(t, N)) % Nonces
                /\ After(t, N).remaining = t.remaining - Taken(t, N)
  <1>1. t.job \in Job /\ t.offset \in Nonce /\ t.remaining \in 0 .. Nonces /\ N \in Nat
    BY SizeAssumption DEF Tracker
  <1>2. Taken(t, N) \in 0 .. t.remaining
    BY <1>1 DEF Taken
  <1>3. t.offset \in Nat /\ Nonces \in Nat
    BY <1>1, SizeAssumption DEF Nonce
  <1>4. \A i \in 0 .. Taken(t, N) - 1 : (t.offset + i) % Nonces \in Nonce
    BY <1>2, <1>3, ModRange
  <1>5. NoncesOf(t, N) \subseteq Nonce
    BY <1>4 DEF NoncesOf
  <1>6. (t.offset + Taken(t, N)) % Nonces \in Nonce
    BY <1>2, <1>3, ModRange
  <1>7. t.remaining - Taken(t, N) \in 0 .. Nonces
    BY <1>1, <1>2, <1>3
  <1>8. ASSUME Taken(t, N) # t.remaining
        PROVE  After(t, N) = [job |-> t.job,
                              offset |-> (t.offset + Taken(t, N)) % Nonces,
                              remaining |-> t.remaining - Taken(t, N)]
    BY <1>8 DEF After
  <1>9. Taken(t, N) = t.remaining => After(t, N) = None
    BY DEF After
  <1> HIDE DEF Taken, After, NoncesOf
  <1> QED
    BY <1>1, <1>2, <1>5, <1>6, <1>7, <1>8, <1>9 DEF Tracker

LEMMA GoesOnType ==
    ASSUME TypeInv, NEW d \in Device, attempt[d] # None,
           NEW stage \in {"check", "assign", "range"}, NEW seen \in Tracker \cup {None}
    PROVE  GoesOn(d, stage, seen) \in Attempt
  BY AttemptFields DEF GoesOn, Attempt

LEMMA BeganType ==
    ASSUME TypeInv, NEW d \in Device, NEW who \in {"callback", "set_work", "ring"},
           Began(d, who)
    PROVE  attempt' \in [Device -> Attempt \cup {None}]
  <1>1. [by |-> who, runner |-> 1, stage |-> "check", seen |-> None] \in Attempt
    BY DEF Attempt, Runner
  <1> QED
    BY <1>1 DEF Began, TypeInv

(* The job that is generated, with its tracker.                            *)
LEMMA FreshTracker ==
    ASSUME TypeInv, work > 0, extra < MaxJobs, NEW o \in Nonce
    PROVE  [job |-> [work |-> work, extra |-> extra + 1],
            offset |-> o, remaining |-> Nonces] \in Tracker
  BY SizeAssumption DEF TypeInv, Tracker, Job

(* What TakeRange does, for the number of nonces it takes.                 *)
TookRange(d, N) ==
    LET t == attempt[d].seen
        r == attempt[d].runner
        pairs == {t.job} \X NoncesOf(t, N)
    IN  /\ tracker' = [tracker EXCEPT ![d] = IF @ = None THEN None ELSE After(t, N)]
        /\ attempt' = [attempt EXCEPT ![d] = NextRunner(d)]
        /\ \/ /\ running' = [running EXCEPT
                               ![d][r] = [job |-> t.job, nonces |-> NoncesOf(t, N)]]
              /\ tried' = tried \cup pairs
              /\ refused' = [refused EXCEPT ![d] = @ \ {r}]
           \/ /\ refused' = [refused EXCEPT ![d] = @ \cup {r}]
              /\ UNCHANGED <<running, tried>>
        /\ UNCHANGED <<work, extra, active, finished, setVars, held, calling>>

LEMMA TakeRangeSteps ==
    ASSUME NEW d \in Device, TakeRange(d)
    PROVE  /\ attempt[d] # None /\ attempt[d].stage = "range"
           /\ \E N \in Chunks : TookRange(d, N)
  BY DEF TakeRange, TookRange

(* There are two runners for each of finitely many devices.                *)
LEMMA SlotsFinite == IsFiniteSet(Device \X Runner)
  <1>1. IsFiniteSet({} \cup {1})
    BY FS_EmptySet, FS_AddElement
  <1>2. IsFiniteSet(({} \cup {1}) \cup {2})
    BY <1>1, FS_AddElement
  <1>3. Runner = ({} \cup {1}) \cup {2}
    BY DEF Runner
  <1>4. IsFiniteSet(Runner)
    BY <1>2, <1>3, Zenon
  <1> QED
    BY <1>4, DeviceAssumption, FS_Product

(* What a try_start has in hand at its stages, and the device's job beside *)
(* it: set_work may have cleared that, but nobody has replaced it.         *)
StageInv ==
    \A d \in Device : attempt[d] # None =>
        /\ attempt[d].stage = "check" <=> attempt[d].seen = None
        /\ attempt[d].stage = "assign" => tracker[d] = None
        /\ attempt[d].stage = "range" => tracker[d] \in {None, attempt[d].seen}
        /\ attempt[d].stage # "check" => running[d][attempt[d].runner] = None

LEMMA TypeOfTry ==
    ASSUME TypeInv, StageInv, NEW d \in Device, Try(d) PROVE TypeInv'
  <1>1. CASE SkipBusy(d)
    BY <1>1, NextRunnerType
    DEF SkipBusy, Looking, TypeInv, jobVars, devVars, setVars, ringVars, ghosts
  <1>2. CASE Refuse(d)
    BY <1>2, NextRunnerType, AttemptFields
    DEF Refuse, Looking, TypeInv, jobVars, devVars, setVars, ringVars
  <1>3. CASE Generate(d)
    <2>1. PICK o \in Nonce : attempt' = [attempt EXCEPT ![d] =
              GoesOn(d, "assign", [job |-> [work |-> work, extra |-> extra + 1],
                                   offset |-> o, remaining |-> Nonces])]
      BY <1>3 DEF Generate
    <2>2. attempt' \in [Device -> Attempt \cup {None}]
      BY <1>3, <2>1, FreshTracker, GoesOnType DEF Generate, Looking, TypeInv
    <2>3. extra' \in 0 .. MaxJobs
      BY <1>3, SizeAssumption DEF Generate, TypeInv
    <2> QED
      BY <1>3, <2>2, <2>3
      DEF Generate, TypeInv, devVars, setVars, ringVars, ghosts
  <1>4. CASE SeeJob(d)
    BY <1>4, GoesOnType
    DEF SeeJob, Looking, TypeInv, jobVars, devVars, setVars, ringVars, ghosts
  <1>5. CASE Assign(d)
    <2>1. attempt[d].seen \in Tracker \cup {None} /\ attempt[d] # None
      BY <1>5, AttemptFields DEF Assign
    <2>2. GoesOn(d, "range", attempt[d].seen) \in Attempt
      BY <2>1, GoesOnType
    <2> QED
      BY <1>5, <2>1, <2>2
      DEF Assign, TypeInv, devVars, setVars, ringVars, ghosts
  <1>6. ASSUME NEW N \in Chunks, attempt[d] # None, attempt[d].seen \in Tracker,
               TookRange(d, N)
        PROVE  TypeInv'
    <2> DEFINE t == attempt[d].seen
               r == attempt[d].runner
    <2>1. r \in Runner /\ t \in Tracker /\ t.job \in Job
      BY <1>6, AttemptFields DEF Tracker
    <2>2. NoncesOf(t, N) \subseteq Nonce /\ After(t, N) \in Tracker \cup {None}
      BY <2>1, TakenBounds
    <2>3. [job |-> t.job, nonces |-> NoncesOf(t, N)] \in JobNonceRange
      BY <2>1, <2>2 DEF JobNonceRange
    <2>4. {t.job} \X NoncesOf(t, N) \subseteq Job \X Nonce
      BY <2>1, <2>2
    <2>5. NextRunner(d) \in Attempt \cup {None}
      BY <1>6, NextRunnerType
    <2>6. tracker' \in [Device -> Tracker \cup {None}]
      BY <1>6, <2>2 DEF TookRange, TypeInv
    <2>7. attempt' \in [Device -> Attempt \cup {None}]
      BY <1>6, <2>5 DEF TookRange, TypeInv
    <2>8. running' \in [Device -> [Runner -> JobNonceRange \cup {None}]]
      <3>1. \A x \in JobNonceRange :
                [running EXCEPT ![d][r] = x]
                  \in [Device -> [Runner -> JobNonceRange \cup {None}]]
        BY <2>1 DEF TypeInv
      <3>2. \/ running' = running
            \/ running' = [running EXCEPT
                             ![d][r] = [job |-> t.job, nonces |-> NoncesOf(t, N)]]
        BY <1>6 DEF TookRange
      <3> QED
        BY <2>3, <3>1, <3>2 DEF TypeInv
    <2>9. tried' \in SUBSET (Job \X Nonce)
      BY <1>6, <2>4 DEF TookRange, TypeInv
    <2>10. refused' \in [Device -> SUBSET Runner]
      BY <1>6, <2>1 DEF TookRange, TypeInv
    <2> QED
      BY <1>6, <2>6, <2>7, <2>8, <2>9, <2>10 DEF TookRange, TypeInv, setVars
  <1>7. CASE TakeRange(d)
    <2>1. attempt[d] # None /\ attempt[d].seen \in Tracker
      BY <1>7, TakeRangeSteps, AttemptFields DEF StageInv
    <2> QED
      BY <1>6, <1>7, <2>1, TakeRangeSteps
  <1> QED
    BY <1>1, <1>2, <1>3, <1>4, <1>5, <1>7 DEF Try

LEMMA TypeKept ==
    ASSUME TypeInv, StageInv, [Next]_vars PROVE TypeInv'
  <1>1. CASE UNCHANGED vars
    BY <1>1 DEF vars, TypeInv, jobVars, devVars, setVars, ringVars, ghosts
  <1>2. ASSUME NEW d \in Device, Try(d) PROVE TypeInv'
    BY <1>2, TypeOfTry
  <1>3. ASSUME NEW d \in Device, AllocationPossible(d) PROVE TypeInv'
    BY <1>3, BeganType
    DEF AllocationPossible, TypeInv, jobVars, devVars, setVars, ghosts
  <1>4. ASSUME NEW d \in Device, NEW r \in Runner, KernelEnds(d, r) PROVE TypeInv'
    BY <1>4 DEF KernelEnds, TypeInv, jobVars, setVars, ghosts
  <1>5. ASSUME NEW d \in Device, NEW r \in Runner, HandleFinished(d, r) PROVE TypeInv'
    BY <1>5, BeganType
    DEF HandleFinished, TypeInv, jobVars, setVars, ringVars, ghosts
  <1>6. CASE DropBuffer
    <2>1. held' \in Nat
      <3>1. Cardinality({k \in Device \X Runner : k[2] \in finished[k[1]]}) \in Nat
        BY SlotsFinite, FS_Subset, FS_CardinalityType
      <3> QED
        BY <1>6, <3>1 DEF DropBuffer, TypeInv
    <2> QED
      BY <1>6, <2>1 DEF DropBuffer, TypeInv, jobVars, devVars, setVars, ghosts
  <1>7. CASE SetWork
    BY <1>7, SizeAssumption
    DEF SetWork, TypeInv, devVars, ringVars, ghosts
  <1>8. ASSUME NEW d \in Device, Activate(d) PROVE TypeInv'
    BY <1>8 DEF Activate, TypeInv, jobVars, ringVars, ghosts
  <1>9. CASE ClearJob
    BY <1>9 DEF ClearJob, TypeInv, devVars, ringVars, ghosts
  <1>10. CASE StartDevice
    <2>1. setter.device \in Device
      BY <1>10 DEF StartDevice, TypeInv
    <2> QED
      BY <1>10, <2>1, BeganType
      DEF StartDevice, TypeInv, jobVars, devVars, ringVars, ghosts
  <1>11. CASE SetWorkReturns
    BY <1>11 DEF SetWorkReturns, TypeInv, jobVars, devVars, ringVars, ghosts
  <1> QED
    BY <1>1, <1>2, <1>3, <1>4, <1>5, <1>6, <1>7, <1>8, <1>9, <1>10, <1>11
    DEF Next, SetStep

(* The other devices are left alone by a try_start.                        *)
LEMMA TryIsLocal ==
    ASSUME TypeInv, NEW d \in Device, Try(d), NEW e \in Device, e # d
    PROVE  /\ attempt'[e] = attempt[e] /\ tracker'[e] = tracker[e]
           /\ running'[e] = running[e] /\ refused'[e] = refused[e]
  <1>1. CASE SkipBusy(d) \/ Refuse(d)
    BY <1>1 DEF SkipBusy, Refuse, TypeInv, jobVars, devVars, ghosts
  <1>2. CASE Generate(d) \/ SeeJob(d) \/ Assign(d)
    BY <1>2 DEF Generate, SeeJob, Assign, TypeInv, jobVars, devVars, ghosts
  <1>3. CASE TakeRange(d)
    <2>1. PICK N \in Chunks : TookRange(d, N)
      BY <1>3, TakeRangeSteps
    <2> QED
      BY <2>1 DEF TookRange, TypeInv
  <1> QED
    BY <1>1, <1>2, <1>3 DEF Try

(* What a try_start makes of its own device.                               *)
Ends(d) == /\ attempt'[d] = NextRunner(d)
           /\ tracker' = tracker /\ running' = running /\ tried' = tried
           /\ UNCHANGED <<work, extra, twice>>
LEMMA TryEffects ==
    ASSUME TypeInv, StageInv, NEW d \in Device, Try(d)
    PROVE  /\ attempt[d] # None
           /\ UNCHANGED <<work, active, finished, setter, todo, held, calling>>
           /\ \/ attempt[d].stage = "check" /\ Ends(d)
                 /\ \/ running[d][attempt[d].runner] # None /\ refused' = refused
                    \/ refused'[d] = refused[d] \cup {attempt[d].runner}
              \/ /\ attempt[d].stage = "check" /\ CanLockRing(d) /\ ~Full
                 /\ running[d][attempt[d].runner] = None
                 /\ UNCHANGED <<tracker, running, tried, twice, refused>>
                 /\ \/ /\ tracker[d] = None /\ extra' = extra + 1
                       /\ work > 0 /\ extra < MaxJobs
                       /\ \E o \in Nonce : attempt'[d] =
                            GoesOn(d, "assign",
                                   [job |-> [work |-> work, extra |-> extra + 1],
                                    offset |-> o, remaining |-> Nonces])
                    \/ /\ tracker[d] # None /\ extra' = extra
                       /\ attempt'[d] = GoesOn(d, "range", tracker[d])
              \/ /\ attempt[d].stage = "assign"
                 /\ tracker'[d] = attempt[d].seen
                 /\ attempt'[d] = GoesOn(d, "range", attempt[d].seen)
                 /\ UNCHANGED <<extra, running, tried, twice, refused>>
              \/ /\ attempt[d].stage = "range" /\ extra' = extra
                 /\ \E N \in Chunks : TookRange(d, N)
  <1>1. CASE SkipBusy(d)
    BY <1>1 DEF SkipBusy, Looking, Idle, Ends, TypeInv, jobVars, devVars, setVars,
                ringVars, ghosts
  <1>2. CASE Refuse(d)
    BY <1>2 DEF Refuse, Looking, Idle, Ends, TypeInv, jobVars, devVars, setVars,
                ringVars
  <1>3. CASE Generate(d)
    <2>1. PICK o \in Nonce : attempt' = [attempt EXCEPT ![d] =
              GoesOn(d, "assign", [job |-> [work |-> work, extra |-> extra + 1],
                                   offset |-> o, remaining |-> Nonces])]
      BY <1>3 DEF Generate
    <2>2. attempt'[d] =
              GoesOn(d, "assign", [job |-> [work |-> work, extra |-> extra + 1],
                                   offset |-> o, remaining |-> Nonces])
      BY <2>1 DEF TypeInv
    <2> QED
      BY <1>3, <2>2 DEF Generate, Looking, Idle, devVars, setVars, ringVars, ghosts
  <1>4. CASE SeeJob(d)
    BY <1>4 DEF SeeJob, Looking, Idle, TypeInv, jobVars, devVars, setVars, ringVars,
                ghosts
  <1>5. CASE Assign(d)
    BY <1>5 DEF Assign, TypeInv, devVars, setVars, ringVars, ghosts
  <1>6. CASE TakeRange(d)
    <2>1. attempt[d] # None /\ attempt[d].stage = "range"
          /\ \E N \in Chunks : TookRange(d, N)
      BY <1>6, TakeRangeSteps
    <2> QED
      BY <1>6, <2>1 DEF TakeRange, setVars
  <1> QED
    BY <1>1, <1>2, <1>3, <1>4, <1>5, <1>6 DEF Try

LEMMA RangeEffects ==
    ASSUME TypeInv, StageInv, NEW d \in Device, Try(d), attempt[d].stage = "range"
    PROVE  /\ \E N \in Chunks : TookRange(d, N)
           /\ attempt'[d] = NextRunner(d)
  <1>1. PICK N \in Chunks : TookRange(d, N)
    BY TryEffects
  <1>2. attempt'[d] = NextRunner(d)
    BY <1>1 DEF TookRange, TypeInv
  <1> QED
    BY <1>1, <1>2

(* A try_start begins with the first runner, or the device is not active.  *)
LEMMA BeganEffects ==
    ASSUME TypeInv, NEW d \in Device, NEW who, Began(d, who)
    PROVE  /\ \/ attempt'[d] = [by |-> who, runner |-> 1, stage |-> "check", seen |-> None]
              \/ attempt'[d] = None /\ d \notin active
           /\ attempt'[d] # None => /\ attempt'[d].runner = 1 /\ attempt'[d].by = who
                                    /\ attempt'[d].stage = "check"
                                    /\ attempt'[d].seen = None
           /\ d \in active => attempt'[d] # None
           /\ \A e \in Device : e # d => attempt'[e] = attempt[e]
  <1>1. /\ attempt'[d] = IF d \in active
                        THEN [by |-> who, runner |-> 1, stage |-> "check", seen |-> None]
                        ELSE None
        /\ \A e \in Device : e # d => attempt'[e] = attempt[e]
    BY DEF Began, TypeInv
  <1>2. CASE d \in active
    <2>1. "by" \in DOMAIN attempt'[d]
      BY <1>1, <1>2
    <2>2. "by" \notin DOMAIN None
      BY DEF None
    <2> QED
      BY <1>1, <1>2, <2>1, <2>2
  <1>3. CASE d \notin active
    BY <1>1, <1>3
  <1> QED
    BY <1>2, <1>3

-----------------------------------------------------------------------------
LEMMA StageKept ==
    ASSUME TypeInv, StageInv, [Next]_vars PROVE StageInv'
  <1> DEFINE Stage(d) ==
        attempt[d] # None =>
          /\ attempt[d].stage = "check" <=> attempt[d].seen = None
          /\ attempt[d].stage = "assign" => tracker[d] = None
          /\ attempt[d].stage = "range" => tracker[d] \in {None, attempt[d].seen}
          /\ attempt[d].stage # "check" => running[d][attempt[d].runner] = None
  <1>0. \A d \in Device : Stage(d)
    BY DEF StageInv
  <1>a. SUFFICES ASSUME NEW e \in Device PROVE Stage(e)'
    BY DEF StageInv
  <1>b. attempt[e] # None => attempt[e].runner \in Runner
                             /\ attempt[e].seen \in Tracker \cup {None}
    BY AttemptFields
  <1>1. CASE UNCHANGED vars
    BY <1>0, <1>1 DEF vars, jobVars, devVars
  <1>2. ASSUME NEW d \in Device, Try(d) PROVE Stage(e)'
    <2>1. CASE e # d
      BY <1>0, <1>2, <2>1, TryIsLocal
    <2>2. CASE e = d
      <3>1. ASSUME attempt'[d] = NextRunner(d) PROVE Stage(d)'
        <4>1. attempt[d] # None /\ attempt[d].runner \in {1, 2}
          BY <1>2, TryEffects, AttemptFields DEF Runner
        <4>2. CASE attempt[d].runner = 1
          <5>1. attempt'[d] = [by |-> attempt[d].by, runner |-> 2,
                               stage |-> "check", seen |-> None]
            BY <3>1, <4>1, <4>2, NextRunnerType
          <5> QED
            BY <5>1
        <4>3. CASE attempt[d].runner = 2
          BY <3>1, <4>1, <4>3, NextRunnerType
        <4> QED
          BY <4>1, <4>2, <4>3
      <3>2. CASE attempt[d].stage = "range"
        <4>1. attempt'[d] = NextRunner(d)
          BY <1>2, <3>2, RangeEffects
        <4> QED
          BY <2>2, <3>1, <4>1
      <3>3. CASE attempt[d].stage = "assign"
        <4>1. /\ attempt'[d] = GoesOn(d, "range", attempt[d].seen)
              /\ tracker'[d] = attempt[d].seen /\ running' = running
          BY <1>2, <3>3, TryEffects
        <4>2. attempt[d].seen # None /\ running[d][attempt[d].runner] = None
          BY <1>0, <1>2, <3>3, TryEffects
        <4> QED
          BY <2>2, <4>1, <4>2 DEF GoesOn
      <3>4. ASSUME NEW o \in Nonce, work > 0, extra < MaxJobs,
                   attempt[d].stage = "check", tracker[d] = None,
                   running[d][attempt[d].runner] = None,
                   UNCHANGED <<tracker, running>>,
                   attempt'[d] = GoesOn(d, "assign",
                       [job |-> [work |-> work, extra |-> extra + 1],
                        offset |-> o, remaining |-> Nonces])
            PROVE  Stage(d)'
        BY <3>4, FreshTracker, NoneFacts DEF GoesOn
      <3>5. ASSUME attempt[d].stage = "check", tracker[d] # None,
                   running[d][attempt[d].runner] = None,
                   UNCHANGED <<tracker, running>>,
                   attempt'[d] = GoesOn(d, "range", tracker[d])
            PROVE  Stage(d)'
        BY <3>5 DEF GoesOn
      <3> HIDE DEF Stage
      <3> QED
        BY <1>2, <2>2, <3>1, <3>2, <3>3, <3>4, <3>5, TryEffects DEF Ends
    <2> QED
      BY <2>1, <2>2
  <1>3. ASSUME NEW d \in Device, NEW who, Began(d, who),
               UNCHANGED <<tracker, running>>
        PROVE  Stage(e)'
    <2>1. CASE e = d
      <3>1. CASE attempt'[d] = [by |-> who, runner |-> 1, stage |-> "check",
                                seen |-> None]
        BY <2>1, <3>1
      <3> QED
        BY <1>3, <2>1, <3>1, BeganEffects
    <2>2. CASE e # d
      BY <1>0, <1>3, <2>2, BeganEffects
    <2> QED
      BY <2>1, <2>2
  <1>4. ASSUME NEW d \in Device, AllocationPossible(d) PROVE Stage(e)'
    BY <1>3, <1>4 DEF AllocationPossible, jobVars, devVars
  <1>5. ASSUME NEW d \in Device, NEW r \in Runner, KernelEnds(d, r) PROVE Stage(e)'
    <2>1. /\ attempt' = attempt /\ tracker' = tracker
          /\ running' = [running EXCEPT ![d][r] = None]
      BY <1>5 DEF KernelEnds, jobVars
    <2>2. \A x \in Runner : running[e][x] = None => running'[e][x] = None
      BY <2>1 DEF TypeInv
    <2> QED
      BY <1>0, <1>b, <2>1, <2>2
  <1>6. ASSUME NEW d \in Device, NEW r \in Runner, HandleFinished(d, r) PROVE Stage(e)'
    BY <1>3, <1>6 DEF HandleFinished, jobVars
  <1>7. CASE DropBuffer
    BY <1>0, <1>7 DEF DropBuffer, jobVars, devVars
  <1>8. CASE SetWork
    BY <1>0, <1>8 DEF SetWork, devVars
  <1>9. ASSUME NEW d \in Device, Activate(d) PROVE Stage(e)'
    BY <1>0, <1>9 DEF Activate, jobVars
  <1>10. CASE ClearJob
    <2>1. /\ tracker' = [tracker EXCEPT ![setter.device] = None]
          /\ UNCHANGED <<attempt, running>>
      BY <1>10 DEF ClearJob, devVars
    <2>2. tracker'[e] \in {None, tracker[e]}
      BY <2>1 DEF TypeInv
    <2> QED
      BY <1>0, <2>1, <2>2
  <1>11. CASE StartDevice
    <2>1. setter.device \in Device
      BY <1>11 DEF StartDevice, TypeInv
    <2> QED
      BY <1>3, <1>11, <2>1 DEF StartDevice, jobVars, devVars
  <1>12. CASE SetWorkReturns
    BY <1>0, <1>12 DEF SetWorkReturns, jobVars, devVars
  <1> QED
    BY <1>1, <1>2, <1>4, <1>5, <1>6, <1>7, <1>8, <1>9, <1>10, <1>11, <1>12
    DEF Next, SetStep

-----------------------------------------------------------------------------
(* The ring: one allocator at a time, and room for what it will allocate.  *)
RoomInv ==
    /\ InUse <= Capacity
    /\ \A d \in Device : AllocatorOf(d) => InUse < Capacity
    /\ \A d, e \in Device : AllocatorOf(d) /\ AllocatorOf(e) => d = e

LEMMA KernelsFinite ==
    /\ IsFiniteSet(Kernels) /\ Cardinality(Kernels) \in Nat
    /\ IsFiniteSet(Kernels') /\ Cardinality(Kernels') \in Nat
  <1>1. Kernels \in SUBSET (Device \X Runner) /\ Kernels' \in SUBSET (Device \X Runner)
    BY DEF Kernels
  <1> QED
    BY <1>1, SlotsFinite, FS_Subset, FS_CardinalityType

LEMMA OneMore ==
    ASSUME NEW S, IsFiniteSet(S), NEW x
    PROVE  IsFiniteSet(S \cup {x}) /\ Cardinality(S \cup {x}) <= Cardinality(S) + 1
  <1>1. Cardinality(S) \in Nat
    BY FS_CardinalityType
  <1>2. /\ IsFiniteSet(S \cup {x})
        /\ \/ Cardinality(S \cup {x}) = Cardinality(S)
           \/ Cardinality(S \cup {x}) = Cardinality(S) + 1
    BY FS_AddElement
  <1> QED
    BY <1>1, <1>2

(* Nothing changes in the ring.                                            *)
LEMMA RoomUntouched ==
    ASSUME RoomInv, held' = held, running' = running,
           \A d \in Device : AllocatorOf(d)' => AllocatorOf(d)
    PROVE  RoomInv'
  <1>1. InUse' = InUse
    BY DEF InUse, Kernels
  <1> HIDE DEF InUse, AllocatorOf
  <1> QED
    BY <1>1 DEF RoomInv

LEMMA RoomOfTry ==
    ASSUME TypeInv, StageInv, RoomInv, NEW d \in Device, Try(d) PROVE RoomInv'
  <1>0. /\ held' = held /\ attempt[d] # None
        /\ \A e \in Device : e # d => AllocatorOf(e)' = AllocatorOf(e)
    BY TryEffects, TryIsLocal DEF AllocatorOf
  <1>1. ASSUME attempt'[d] = NextRunner(d) PROVE ~AllocatorOf(d)'
    <2>1. attempt[d] # None /\ attempt[d].runner \in {1, 2}
      BY TryEffects, AttemptFields DEF Runner
    <2>2. CASE attempt[d].runner = 1
      <3>1. attempt'[d] = [by |-> attempt[d].by, runner |-> 2,
                           stage |-> "check", seen |-> None]
        BY <1>1, <2>1, <2>2, NextRunnerType
      <3> QED
        BY <3>1 DEF AllocatorOf
    <2>3. CASE attempt[d].runner = 2
      BY <1>1, <2>1, <2>3, NextRunnerType DEF AllocatorOf
    <2> QED
      BY <2>1, <2>2, <2>3
  <1>2. CASE attempt[d].stage = "check" /\ Ends(d)
    BY <1>0, <1>1, <1>2, RoomUntouched DEF Ends
  <1>3. CASE CanLockRing(d) /\ ~Full /\ running' = running
    <2>1. InUse' = InUse
      BY <1>0, <1>3 DEF InUse, Kernels
    <2>2. InUse < Capacity
      BY <1>3, KernelsFinite, SizeAssumption DEF Full, InUse, TypeInv
    <2>3. \A e \in Device : AllocatorOf(e)' => e = d
      BY <1>0, <1>3 DEF CanLockRing
    <2> HIDE DEF InUse, AllocatorOf
    <2> QED
      BY <2>1, <2>2, <2>3 DEF RoomInv
  <1>4. CASE attempt[d].stage = "assign" /\ running' = running
    <2>1. AllocatorOf(d)
      BY <1>0, <1>4 DEF AllocatorOf
    <2> QED
      BY <1>0, <1>4, <2>1, RoomUntouched
  <1>5. CASE attempt[d].stage = "range"
    <2> DEFINE r == attempt[d].runner
    <2>0. r \in Runner /\ running[d][r] = None
      BY <1>0, <1>5, AttemptFields DEF StageInv
    <2>1. ~AllocatorOf(d)' /\ AllocatorOf(d)
      BY <1>0, <1>1, <1>5, RangeEffects DEF AllocatorOf
    <2>2. \A e \in Device : ~AllocatorOf(e)'
      BY <1>0, <2>1 DEF RoomInv
    <2>3. InUse < Capacity
      BY <2>1 DEF RoomInv
    <2>4. PICK N \in Chunks : TookRange(d, N)
      BY <1>5, RangeEffects
    <2>5. running' = running \/ \E x : running' = [running EXCEPT ![d][r] = x]
      BY <2>4 DEF TookRange
    <2>6. Kernels' \subseteq Kernels \cup {<<d, r>>}
      <3>1. \A e \in Device, y \in Runner :
                <<e, y>> # <<d, r>> => running'[e][y] = running[e][y]
        BY <2>5 DEF TypeInv
      <3> QED
        BY <3>1 DEF Kernels
    <2>7. Cardinality(Kernels') <= Cardinality(Kernels) + 1
      <3>1. IsFiniteSet(Kernels \cup {<<d, r>>})
            /\ Cardinality(Kernels \cup {<<d, r>>}) <= Cardinality(Kernels) + 1
        BY KernelsFinite, OneMore
      <3>2. Cardinality(Kernels') <= Cardinality(Kernels \cup {<<d, r>>})
            /\ Cardinality(Kernels \cup {<<d, r>>}) \in Nat
        BY <2>6, <3>1, FS_Subset, FS_CardinalityType
      <3> QED
        BY <3>1, <3>2, KernelsFinite
    <2>8. InUse' <= Capacity
      BY <1>0, <2>3, <2>7, KernelsFinite, SizeAssumption DEF InUse, TypeInv
    <2> HIDE DEF InUse, AllocatorOf
    <2> QED
      BY <2>2, <2>8 DEF RoomInv
  <1> QED
    BY <1>2, <1>3, <1>4, <1>5, TryEffects

LEMMA RoomKept ==
    ASSUME TypeInv, StageInv, RoomInv, [Next]_vars PROVE RoomInv'
  <1>1. CASE UNCHANGED vars
    BY <1>1, RoomUntouched DEF vars, devVars, ringVars, AllocatorOf
  <1>2. ASSUME NEW d \in Device, Try(d) PROVE RoomInv'
    BY <1>2, RoomOfTry
  <1>3. ASSUME NEW d \in Device, NEW who, Began(d, who), UNCHANGED <<held, running>>
        PROVE  RoomInv'
    <2>1. ~AllocatorOf(d)'
      <3>1. CASE attempt'[d] = [by |-> who, runner |-> 1, stage |-> "check",
                                seen |-> None]
        BY <3>1 DEF AllocatorOf
      <3> QED
        BY <1>3, <3>1, BeganEffects DEF AllocatorOf
    <2>2. \A e \in Device : AllocatorOf(e)' => AllocatorOf(e)
      BY <1>3, <2>1, BeganEffects DEF AllocatorOf
    <2> QED
      BY <1>3, <2>2, RoomUntouched
  <1>4. ASSUME NEW d \in Device, AllocationPossible(d) PROVE RoomInv'
    BY <1>3, <1>4 DEF AllocationPossible, devVars
  <1>5. ASSUME NEW d \in Device, NEW r \in Runner, KernelEnds(d, r) PROVE RoomInv'
    <2>1. /\ attempt' = attempt /\ held' = held + 1 /\ running[d][r] # None
          /\ running' = [running EXCEPT ![d][r] = None]
      BY <1>5 DEF KernelEnds
    <2>2. Kernels' = Kernels \ {<<d, r>>} /\ <<d, r>> \in Kernels
      <3>1. \A e \in Device, y \in Runner :
                running'[e][y] = IF <<e, y>> = <<d, r>> THEN None ELSE running[e][y]
        BY <2>1 DEF TypeInv
      <3> QED
        BY <2>1, <3>1 DEF Kernels
    <2>3. Cardinality(Kernels') = Cardinality(Kernels) - 1
      BY <2>2, KernelsFinite, FS_RemoveElement
    <2>4. InUse' = InUse
      BY <2>1, <2>3, KernelsFinite DEF InUse, TypeInv
    <2>5. \A e \in Device : AllocatorOf(e)' = AllocatorOf(e)
      BY <2>1 DEF AllocatorOf
    <2> HIDE DEF InUse, AllocatorOf
    <2> QED
      BY <2>4, <2>5 DEF RoomInv
  <1>6. ASSUME NEW d \in Device, NEW r \in Runner, HandleFinished(d, r) PROVE RoomInv'
    BY <1>3, <1>6 DEF HandleFinished, ringVars
  <1>7. CASE DropBuffer
    <2>1. Kernels' = Kernels /\ held' = held - 1 /\ attempt' = attempt
      BY <1>7 DEF DropBuffer, devVars, Kernels
    <2>2. InUse' < InUse /\ InUse' \in Int /\ InUse \in Int
      BY <2>1, KernelsFinite DEF InUse, TypeInv
    <2>3. \A e \in Device : AllocatorOf(e)' = AllocatorOf(e)
      BY <2>1 DEF AllocatorOf
    <2> HIDE DEF InUse, AllocatorOf
    <2> QED
      BY <2>2, <2>3, SizeAssumption DEF RoomInv
  <1>8. CASE SetWork
    BY <1>8, RoomUntouched DEF SetWork, devVars, ringVars, AllocatorOf
  <1>9. ASSUME NEW d \in Device, Activate(d) PROVE RoomInv'
    BY <1>9, RoomUntouched DEF Activate, ringVars, AllocatorOf
  <1>10. CASE ClearJob
    BY <1>10, RoomUntouched DEF ClearJob, devVars, ringVars, AllocatorOf
  <1>11. CASE StartDevice
    <2>1. setter.device \in Device
      BY <1>11 DEF StartDevice, TypeInv
    <2> QED
      BY <1>3, <1>11, <2>1 DEF StartDevice, ringVars, devVars
  <1>12. CASE SetWorkReturns
    BY <1>12, RoomUntouched DEF SetWorkReturns, devVars, ringVars, AllocatorOf
  <1> QED
    BY <1>1, <1>2, <1>4, <1>5, <1>6, <1>7, <1>8, <1>9, <1>10, <1>11, <1>12
    DEF Next, SetStep

-----------------------------------------------------------------------------
(* Where set_work is with a device tells how new the device's job and what *)
(* a try_start has in hand are.  Between the clearing of the job and the   *)
(* next lock of the device, a try_start may still hold a range of an old   *)
(* job, but then it will not store it.                                     *)
SetterAt(stage, d) == setter.stage = stage /\ setter.device = d
Done(d) == d \notin todo /\ ~SetterAt("reset", d) /\ ~SetterAt("start", d)

NewTracker(d)  == tracker[d] # None => tracker[d].job.work = work
NewSeen(d)     == attempt[d] # None /\ attempt[d].seen # None =>
                      attempt[d].seen.job.work = work
NewToStore(d)  == attempt[d] # None /\ attempt[d].stage = "assign" =>
                      attempt[d].seen.job.work = work
NewToShare(d)  == attempt[d] # None /\ attempt[d].stage = "range" /\ tracker[d] # None =>
                      attempt[d].seen.job.work = work

Fresh(d) ==
    /\ Done(d) => NewTracker(d) /\ NewSeen(d)
    /\ SetterAt("reset", d) => NewToStore(d)
    /\ SetterAt("start", d) => NewTracker(d) /\ NewToStore(d) /\ NewToShare(d)

FreshInv ==
    /\ setter.stage = "idle" => todo = {}
    /\ \A d \in Device : Fresh(d)

LEMMA FreshOfTry ==
    ASSUME TypeInv, StageInv, NEW d \in Device, Try(d), Fresh(d)
    PROVE  Fresh(d)'
  <1>0. /\ work' = work /\ setter' = setter /\ todo' = todo /\ attempt[d] # None
        /\ Done(d)' = Done(d)
        /\ \A st : SetterAt(st, d)' = SetterAt(st, d)
    BY TryEffects DEF Done, SetterAt
  <1> USE DEF NewTracker, NewSeen, NewToStore, NewToShare
  <1>a. /\ attempt[d].stage = "check" <=> attempt[d].seen = None
        /\ attempt[d].stage = "assign" => tracker[d] = None
        /\ attempt[d].stage = "range" => tracker[d] \in {None, attempt[d].seen}
    BY <1>0 DEF StageInv
  <1>1. ASSUME attempt'[d] = NextRunner(d),
               tracker'[d] \in {None, tracker[d]}
                   \/ (tracker[d] # None /\ tracker'[d].job = tracker[d].job)
        PROVE  Fresh(d)'
    <2>1. attempt'[d] = None \/ (attempt'[d].stage = "check" /\ attempt'[d].seen = None)
      <3>1. attempt[d].runner \in {1, 2}
        BY <1>0, AttemptFields DEF Runner
      <3>2. attempt[d].runner = 1 => attempt'[d] = [by |-> attempt[d].by, runner |-> 2,
                                                    stage |-> "check", seen |-> None]
        BY <1>0, <1>1, NextRunnerType
      <3>3. attempt[d].runner = 2 => attempt'[d] = None
        BY <1>0, <1>1, NextRunnerType
      <3> QED
        BY <3>1, <3>2, <3>3
    <2> QED
      BY <1>0, <1>1, <2>1 DEF Fresh
  <1>2. ASSUME NEW t, t.job.work = work, attempt'[d] = GoesOn(d, "assign", t),
               tracker' = tracker
        PROVE  Fresh(d)'
    <2>1. attempt'[d].seen = t /\ attempt'[d].stage = "assign"
      BY <1>2 DEF GoesOn
    <2> QED
      BY <1>0, <1>2, <2>1 DEF Fresh
  <1>3. ASSUME tracker[d] # None, tracker' = tracker,
               attempt'[d] = GoesOn(d, "range", tracker[d])
        PROVE  Fresh(d)'
    <2>1. attempt'[d].seen = tracker[d] /\ attempt'[d].stage = "range"
      BY <1>3 DEF GoesOn
    <2> QED
      BY <1>0, <1>3, <2>1 DEF Fresh
  <1>4. ASSUME attempt[d].stage = "assign", tracker'[d] = attempt[d].seen,
               attempt'[d] = GoesOn(d, "range", attempt[d].seen)
        PROVE  Fresh(d)'
    <2>1. attempt'[d].seen = attempt[d].seen /\ attempt'[d].stage = "range"
      BY <1>4 DEF GoesOn
    <2> QED
      BY <1>0, <1>a, <1>4, <2>1 DEF Fresh
  <1>5. CASE attempt[d].stage = "range"
    <2>1. PICK N \in Chunks : TookRange(d, N)
      BY <1>5, RangeEffects
    <2>2. attempt[d].seen \in Tracker
      BY <1>0, <1>a, <1>5, AttemptFields
    <2>3. tracker'[d] = IF tracker[d] = None THEN None ELSE After(attempt[d].seen, N)
      BY <2>1 DEF TookRange, TypeInv
    <2>4. tracker'[d] = None \/ (tracker[d] # None /\ tracker'[d].job = tracker[d].job)
      BY <1>a, <1>5, <2>2, <2>3, TakenBounds
    <2> QED
      BY <1>1, <1>5, <2>4, RangeEffects
  <1>6. ASSUME NEW o \in Nonce, tracker' = tracker,
               attempt'[d] = GoesOn(d, "assign",
                   [job |-> [work |-> work, extra |-> extra + 1],
                    offset |-> o, remaining |-> Nonces])
        PROVE  Fresh(d)'
    BY <1>2, <1>6
  <1>7. CASE Ends(d)
    BY <1>1, <1>7 DEF Ends
  <1> HIDE DEF NewTracker, NewSeen, NewToStore, NewToShare
  <1> QED
    BY <1>3, <1>4, <1>5, <1>6, <1>7, TryEffects

LEMMA FreshKept ==
    ASSUME TypeInv, StageInv, FreshInv, [Next]_vars PROVE FreshInv'
  <1> USE DEF FreshInv, Fresh, Done, SetterAt, NewTracker, NewSeen, NewToStore,
              NewToShare
  <1>1. CASE UNCHANGED vars
    BY <1>1 DEF vars, jobVars, setVars
  <1>2. ASSUME NEW d \in Device, Try(d) PROVE FreshInv'
    <2>1. UNCHANGED <<work, setter, todo>>
      BY <1>2, TryEffects
    <2>2. Fresh(d)'
      BY <1>2, FreshOfTry DEF FreshInv
    <2>3. \A e \in Device : e # d => Fresh(e)'
      BY <1>2, <2>1, TryIsLocal
    <2> QED
      BY <2>1, <2>2, <2>3
  <1>3. ASSUME NEW d \in Device, NEW who, Began(d, who), tracker' = tracker,
               work' = work
        PROVE  /\ \A e \in Device : NewSeen(e) => NewSeen(e)'
               /\ \A e \in Device : NewToStore(e) => NewToStore(e)'
               /\ \A e \in Device : NewToShare(e) => NewToShare(e)'
               /\ NewSeen(d)'
    <2>1. attempt'[d] = None \/ (attempt'[d].stage = "check" /\ attempt'[d].seen = None)
      BY <1>3, BeganEffects
    <2> QED
      BY <1>3, <2>1, BeganEffects
  <1>4. ASSUME NEW d \in Device, AllocationPossible(d) PROVE FreshInv'
    BY <1>3, <1>4 DEF AllocationPossible, jobVars, setVars
  <1>5. ASSUME NEW d \in Device, NEW r \in Runner, KernelEnds(d, r) PROVE FreshInv'
    BY <1>5 DEF KernelEnds, jobVars, setVars
  <1>6. ASSUME NEW d \in Device, NEW r \in Runner, HandleFinished(d, r) PROVE FreshInv'
    BY <1>3, <1>6 DEF HandleFinished, jobVars, setVars
  <1>7. CASE DropBuffer
    BY <1>7 DEF DropBuffer, jobVars, setVars
  <1>8. CASE SetWork
    BY <1>8 DEF SetWork
  <1>9. ASSUME NEW d \in Device, Activate(d) PROVE FreshInv'
    <2>1. /\ setter' = [stage |-> "reset", device |-> d] /\ todo' = todo \ {d}
          /\ attempt[d] = None /\ UNCHANGED <<work, tracker, attempt>>
          /\ setter.stage = "next"
      BY <1>9 DEF Activate, Unlocked, jobVars
    <2>2. setter'.stage = "reset" /\ setter'.device = d
      BY <2>1
    <2> QED
      BY <2>1, <2>2
  <1>10. CASE ClearJob
    <2>1. /\ setter.stage = "reset" /\ setter.device \in Device
          /\ tracker' = [tracker EXCEPT ![setter.device] = None]
          /\ setter' = [stage |-> "start", device |-> setter.device]
          /\ UNCHANGED <<work, attempt, todo>>
      BY <1>10 DEF ClearJob, TypeInv
    <2>2. setter'.stage = "start" /\ setter'.device = setter.device
      BY <2>1
    <2>3. /\ tracker'[setter.device] = None
          /\ \A e \in Device : e # setter.device => tracker'[e] = tracker[e]
      BY <2>1 DEF TypeInv
    <2> QED
      BY <2>1, <2>2, <2>3
  <1>11. CASE StartDevice
    <2>1. /\ setter.stage = "start" /\ setter.device \in Device
          /\ setter'.stage = "next" /\ UNCHANGED <<work, tracker, todo>>
          /\ Began(setter.device, "set_work")
      BY <1>11 DEF StartDevice, TypeInv, jobVars
    <2> QED
      BY <1>3, <2>1
  <1>12. CASE SetWorkReturns
    <2>1. /\ setter.stage = "next" /\ todo = {} /\ setter'.stage = "idle"
          /\ UNCHANGED <<work, tracker, attempt, todo>>
      BY <1>12 DEF SetWorkReturns, jobVars
    <2> QED
      BY <2>1
  <1> QED
    BY <1>1, <1>2, <1>4, <1>5, <1>6, <1>7, <1>8, <1>9, <1>10, <1>11, <1>12
    DEF Next, SetStep

-----------------------------------------------------------------------------
(* A runner that stands idle was refused, or its device will be tried.     *)
Occupied(d, r) == running[d][r] # None \/ r \in refused[d]
Owed(d) == \/ finished[d] # {} \/ d \in calling
           \/ SetterAt("reset", d) \/ SetterAt("start", d)
Served(d) ==
    d \in active /\ ~Owed(d) =>
        /\ attempt[d] = None => Occupied(d, 1) /\ Occupied(d, 2)
        /\ attempt[d] # None /\ attempt[d].runner = 2 => Occupied(d, 1)
IdleInv == \A d \in Device : Served(d)

LEMMA ServedOfTry ==
    ASSUME TypeInv, StageInv, NEW d \in Device, Try(d), Served(d)
    PROVE  Served(d)'
  <1>0. /\ UNCHANGED <<active, finished, setter, calling>> /\ attempt[d] # None
        /\ (Owed(d)' <=> Owed(d)) /\ attempt[d].runner \in {1, 2}
    BY TryEffects, AttemptFields DEF Owed, SetterAt, Runner
  <1>1. ASSUME attempt'[d] = NextRunner(d),
               NEW r \in Runner, r = attempt[d].runner, Occupied(d, r)',
               \A x \in Runner : x # r => (Occupied(d, x) => Occupied(d, x)')
        PROVE  Served(d)'
    <2>1. CASE attempt[d].runner = 1
      <3>1. attempt'[d] = [by |-> attempt[d].by, runner |-> 2,
                           stage |-> "check", seen |-> None]
        BY <1>0, <1>1, <2>1, NextRunnerType
      <3>2. attempt'[d].by \in {"callback", "set_work", "ring"}
        BY <1>0, <3>1, AttemptFields
      <3>3. attempt'[d] # None
        <4>1. attempt'[d] \in Attempt
          BY <3>1, <3>2 DEF Attempt, Runner
        <4> QED
          BY <4>1, NoneFacts
      <3>4. Occupied(d, 1)'
        BY <1>1, <2>1
      <3> QED
        BY <1>0, <3>1, <3>3, <3>4 DEF Served
    <2>2. CASE attempt[d].runner = 2
      <3>1. attempt'[d] = None
        BY <1>0, <1>1, <2>2, NextRunnerType
      <3>2. Occupied(d, 2)' /\ (Occupied(d, 1) => Occupied(d, 1)')
        BY <1>1, <2>2 DEF Runner
      <3> QED
        BY <1>0, <2>2, <3>1, <3>2 DEF Served
    <2> QED
      BY <1>0, <2>1, <2>2
  <1>2. CASE Ends(d) /\ running[d][attempt[d].runner] # None /\ refused' = refused
    <2> DEFINE r == attempt[d].runner
    <2>1. (Occupied(d, 1)' /\ r = 1) \/ (Occupied(d, 2)' /\ r = 2)
      BY <1>0, <1>2 DEF Ends, Occupied
    <2>2. \A x \in Runner : Occupied(d, x) => Occupied(d, x)'
      BY <1>2 DEF Ends, Occupied
    <2> QED
      BY <1>0, <1>1, <1>2, <2>1, <2>2 DEF Ends, Runner
  <1>3. CASE Ends(d) /\ refused'[d] = refused[d] \cup {attempt[d].runner}
    <2> DEFINE r == attempt[d].runner
    <2>1. (Occupied(d, 1)' /\ r = 1) \/ (Occupied(d, 2)' /\ r = 2)
      BY <1>0, <1>3 DEF Ends, Occupied
    <2>2. \A x \in Runner : Occupied(d, x) => Occupied(d, x)'
      BY <1>3 DEF Ends, Occupied
    <2> QED
      BY <1>0, <1>1, <1>3, <2>1, <2>2 DEF Ends, Runner
  <1>4. CASE attempt[d].stage = "range"
    <2> DEFINE r == attempt[d].runner
    <2>1. PICK N \in Chunks : TookRange(d, N)
      BY <1>4, RangeEffects
    <2>2. attempt[d].seen \in Tracker /\ r \in Runner
      BY <1>0, <1>4, AttemptFields DEF StageInv
    <2>3. [job |-> attempt[d].seen.job, nonces |-> NoncesOf(attempt[d].seen, N)]
             \in JobNonceRange
      <3>1. attempt[d].seen.job \in Job
        BY <2>2 DEF Tracker
      <3> QED
        BY <2>2, <3>1, TakenBounds DEF JobNonceRange
    <2>4. \/ /\ running'[d][r] # None
             /\ \A x \in Runner : x # r => running'[d][x] = running[d][x]
             /\ refused'[d] = refused[d] \ {r}
          \/ /\ running' = running
             /\ refused'[d] = refused[d] \cup {r}
      <3>1. CASE /\ running' = [running EXCEPT ![d][r] =
                        [job |-> attempt[d].seen.job,
                         nonces |-> NoncesOf(attempt[d].seen, N)]]
                 /\ refused' = [refused EXCEPT ![d] = @ \ {r}]
        <4> DEFINE x == [job |-> attempt[d].seen.job,
                         nonces |-> NoncesOf(attempt[d].seen, N)]
        <4>1. x # None
          BY <2>3, NoneFacts
        <4> HIDE DEF x
        <4>2. running' = [running EXCEPT ![d][r] = x]
          BY <3>1 DEF x
        <4>3. running'[d][r] = x
          BY <2>2, <4>2 DEF TypeInv
        <4>4. \A y \in Runner : y # r => running'[d][y] = running[d][y]
          BY <2>2, <4>2 DEF TypeInv
        <4>5. refused'[d] = refused[d] \ {r}
          BY <3>1 DEF TypeInv
        <4> QED
          BY <4>1, <4>3, <4>4, <4>5
      <3>2. CASE running' = running /\ refused' = [refused EXCEPT ![d] = @ \cup {r}]
        BY <3>2 DEF TypeInv
      <3> QED
        BY <2>1, <3>1, <3>2 DEF TookRange
    <2>5. \A x \in Runner : IF x = r THEN Occupied(d, x)'
                             ELSE Occupied(d, x) => Occupied(d, x)'
      BY <2>2, <2>4 DEF Occupied
    <2>6. \E x \in Runner : x = r
      BY <2>2
    <2> HIDE DEF r
    <2>7. PICK x \in Runner : x = r
      BY <2>6
    <2>8. Occupied(d, x)' /\ \A y \in Runner : y # x => (Occupied(d, y) => Occupied(d, y)')
      BY <2>5, <2>7
    <2>9. attempt'[d] = NextRunner(d) /\ x = attempt[d].runner
      BY <1>4, <2>7, RangeEffects DEF r
    <2> QED
      BY <1>1, <2>8, <2>9
  <1>5. ASSUME NEW stage, NEW seen, attempt'[d] = GoesOn(d, stage, seen),
               UNCHANGED <<running, refused>>
        PROVE  Served(d)'
    <2>1. attempt'[d].runner = attempt[d].runner
      BY <1>5 DEF GoesOn
    <2>2. attempt'[d] # None
      <3>1. "by" \in DOMAIN attempt'[d]
        BY <1>5 DEF GoesOn
      <3>2. "by" \notin DOMAIN None
        BY DEF None
      <3> QED
        BY <3>1, <3>2
    <2> QED
      BY <1>0, <1>5, <2>1, <2>2 DEF Served, Occupied
  <1> HIDE DEF Served
  <1>6. CASE /\ UNCHANGED <<running, refused>>
             /\ \E stage, seen : attempt'[d] = GoesOn(d, stage, seen)
    BY <1>5, <1>6
  <1> QED
    BY <1>2, <1>3, <1>4, <1>6, TryEffects

LEMMA IdleKept ==
    ASSUME TypeInv, StageInv, IdleInv, [Next]_vars PROVE IdleInv'
  <1> USE DEF IdleInv, Served, Owed, SetterAt, Occupied
  <1>1. CASE UNCHANGED vars
    BY <1>1 DEF vars, devVars, setVars, ringVars, ghosts
  <1>2. ASSUME NEW d \in Device, Try(d) PROVE IdleInv'
    <2>1. UNCHANGED <<active, finished, setter, calling>>
      BY <1>2, TryEffects
    <2>2. Served(d)'
      BY <1>2, ServedOfTry DEF IdleInv
    <2>3. \A e \in Device : e # d => Served(e)'
      BY <1>2, <2>1, TryIsLocal
    <2> QED
      BY <2>2, <2>3
  <1>3. ASSUME NEW d \in Device, NEW who, Began(d, who),
               UNCHANGED <<active, running, refused>>,
               \A e \in Device : e # d => (Owed(e) => Owed(e)')
        PROVE  IdleInv'
    <2>1. d \in active => attempt'[d] # None /\ attempt'[d].runner = 1
      BY <1>3, BeganEffects
    <2>2. Served(d)'
      BY <1>3, <2>1
    <2>3. \A e \in Device : e # d => attempt'[e] = attempt[e]
      BY <1>3, BeganEffects
    <2>4. \A e \in Device : e # d => Served(e)'
      BY <1>3, <2>3
    <2> QED
      BY <2>2, <2>4
  <1>4. ASSUME NEW d \in Device, AllocationPossible(d) PROVE IdleInv'
    BY <1>3, <1>4 DEF AllocationPossible, devVars, setVars, ghosts
  <1>5. ASSUME NEW d \in Device, NEW r \in Runner, KernelEnds(d, r) PROVE IdleInv'
    <2>1. /\ UNCHANGED <<active, attempt, setter, calling, refused>>
          /\ finished' = [finished EXCEPT ![d] = @ \cup {r}]
          /\ running' = [running EXCEPT ![d][r] = None]
      BY <1>5 DEF KernelEnds, setVars, ghosts
    <2>2. r \in finished'[d]
          /\ \A e \in Device : e # d => finished'[e] = finished[e]
                                        /\ running'[e] = running[e]
      BY <2>1 DEF TypeInv
    <2> QED
      BY <2>1, <2>2
  <1>6. ASSUME NEW d \in Device, NEW r \in Runner, HandleFinished(d, r) PROVE IdleInv'
    <2>1. \A e \in Device : e # d => finished'[e] = finished[e]
      BY <1>6 DEF HandleFinished, TypeInv
    <2> QED
      BY <1>3, <1>6, <2>1 DEF HandleFinished, setVars, ringVars, ghosts
  <1>7. CASE DropBuffer
    <2>1. calling = {} /\ UNCHANGED <<active, attempt, setter, refused, finished, running>>
      BY <1>7 DEF DropBuffer, RingUnlocked, CallbackRuns, devVars, setVars, ghosts
    <2> QED
      BY <2>1
  <1>8. CASE SetWork
    <2>1. /\ setter.stage = "idle" /\ setter'.stage = "next"
          /\ UNCHANGED <<active, attempt, calling, refused, finished, running>>
      BY <1>8 DEF SetWork, devVars, ringVars, ghosts
    <2> QED
      BY <2>1
  <1>9. ASSUME NEW d \in Device, Activate(d) PROVE IdleInv'
    <2>1. /\ setter.stage = "next" /\ setter'.stage = "reset" /\ setter'.device = d
          /\ UNCHANGED <<attempt, calling, refused, finished, running>>
          /\ active' = active \cup {d}
      BY <1>9 DEF Activate, ringVars, ghosts
    <2> QED
      BY <2>1
  <1>10. CASE ClearJob
    <2>1. /\ setter.stage = "reset" /\ setter'.stage = "start"
          /\ setter'.device = setter.device
          /\ UNCHANGED <<active, attempt, calling, refused, finished, running>>
      BY <1>10 DEF ClearJob, devVars, ringVars, ghosts
    <2> QED
      BY <2>1
  <1>11. CASE StartDevice
    <2>1. /\ setter.device \in Device /\ setter.stage = "start" /\ setter'.stage = "next"
          /\ Began(setter.device, "set_work")
          /\ UNCHANGED <<active, calling, refused, finished, running>>
      BY <1>11 DEF StartDevice, TypeInv, devVars, ringVars, ghosts
    <2> QED
      BY <1>3, <2>1
  <1>12. CASE SetWorkReturns
    <2>1. /\ setter.stage = "next" /\ setter'.stage = "idle"
          /\ UNCHANGED <<active, attempt, calling, refused, finished, running>>
      BY <1>12 DEF SetWorkReturns, devVars, ringVars, ghosts
    <2> QED
      BY <2>1
  <1> QED
    BY <1>1, <1>2, <1>4, <1>5, <1>6, <1>7, <1>8, <1>9, <1>10, <1>11, <1>12
    DEF Next, SetStep

-----------------------------------------------------------------------------
(* A job is in the hands of one device, and the nonces its tracker has     *)
(* still to give out have not been given to a kernel.                      *)
Left(t) == {(t.offset + i) % Nonces : i \in 0 .. t.remaining - 1}

InHand(d, t) == /\ t \in Tracker
                /\ t = tracker[d] \/ (attempt[d] # None /\ t = attempt[d].seen)

OwnJobs ==
    /\ \A d \in Device, t \in Tracker : InHand(d, t) => t.job.extra <= extra
    /\ \A d, e \in Device, t, u \in Tracker :
          d # e /\ InHand(d, t) /\ InHand(e, u) => t.job # u.job
UntriedLeft ==
    /\ \A p \in tried : p[1].extra <= extra
    /\ \A d \in Device, t \in Tracker : InHand(d, t) =>
          \A n \in Left(t) : <<t.job, n>> \notin tried

OnceInv == OwnJobs /\ UntriedLeft

(* Going on from a nonce that was reached is going on from the first.      *)
LEMMA Shift ==
    \A o \in Nonce, T \in Nat, i \in Nat : T + i < Nonces =>
        (((o + T) % Nonces) + i) % Nonces = (o + (T + i)) % Nonces
  <1> SUFFICES ASSUME NEW o \in Nonce, NEW T \in Nat, NEW i \in Nat, T + i < Nonces
               PROVE  (((o + T) % Nonces) + i) % Nonces = (o + (T + i)) % Nonces
    OBVIOUS
  <1>1. o \in 0 .. Nonces - 1 /\ Nonces \in Nat \ {0}
    BY SizeAssumption DEF Nonce
  <1> DEFINE x == o + T
             z == o + (T + i)
  <1>2. x \in Nat /\ x < 2 * Nonces /\ z = x + i
    BY <1>1
  <1>3. z \in Nat /\ z < 2 * Nonces
    BY <1>1
  <1> HIDE DEF x, z
  <1> DEFINE w == x % Nonces
             y == w + i
  <1>4. w = IF x < Nonces THEN x ELSE x - Nonces
    BY <1>2, Wrap
  <1>5. z % Nonces = IF z < Nonces THEN z ELSE z - Nonces
    BY <1>3, Wrap
  <1> HIDE DEF w
  <1>6. y \in Nat /\ y < 2 * Nonces
    BY <1>1, <1>2, <1>3, <1>4
  <1>7. y = z \/ (y = z - Nonces /\ z >= Nonces)
    BY <1>1, <1>2, <1>3, <1>4
  <1> HIDE DEF y
  <1>8. y % Nonces = IF y < Nonces THEN y ELSE y - Nonces
    BY <1>6, Wrap
  <1>9. y % Nonces = z % Nonces
    BY <1>1, <1>3, <1>5, <1>6, <1>7, <1>8
  <1> QED
    BY <1>9 DEF y, w, x, z

(* Fewer than Nonces steps do not come back.                               *)
LEMMA Apart ==
    \A o \in Nonce, i \in Nonce, k \in Nonce : k < i =>
        (o + i) % Nonces # (o + k) % Nonces
  <1> SUFFICES ASSUME NEW o \in Nonce, NEW i \in Nonce, NEW k \in Nonce, k < i
               PROVE  (o + i) % Nonces # (o + k) % Nonces
    OBVIOUS
  <1>1. /\ o \in 0 .. Nonces - 1 /\ Nonces \in Nat \ {0}
        /\ i \in 0 .. Nonces - 1 /\ k \in 0 .. Nonces - 1
    BY SizeAssumption DEF Nonce
  <1> DEFINE x == o + i
             y == o + k
  <1>2. x \in Nat /\ x < 2 * Nonces /\ y \in Nat /\ y < 2 * Nonces
    BY <1>1
  <1>3. y < x /\ x < y + Nonces
    BY <1>1
  <1> HIDE DEF x, y
  <1>4. /\ x % Nonces = IF x < Nonces THEN x ELSE x - Nonces
        /\ y % Nonces = IF y < Nonces THEN y ELSE y - Nonces
    BY <1>2, Wrap
  <1>5. x % Nonces # y % Nonces
    BY <1>1, <1>2, <1>3, <1>4
  <1> QED
    BY <1>5 DEF x, y

(* The range that is taken is cut off from what is left.                   *)
LEMMA RangeIsCutOff ==
    ASSUME NEW t \in Tracker, NEW N \in Chunks
    PROVE  /\ NoncesOf(t, N) \subseteq Left(t)
           /\ After(t, N) # None => /\ Left(After(t, N)) \subseteq Left(t)
                                    /\ Left(After(t, N)) \cap NoncesOf(t, N) = {}
  <1> DEFINE T == Taken(t, N)
  <1>1. /\ T \in 0 .. t.remaining /\ t.remaining \in 0 .. Nonces
        /\ t.offset \in Nonce /\ Nonces \in Nat \ {0}
    BY TakenBounds, SizeAssumption DEF Tracker
  <1>2. NoncesOf(t, N) \subseteq Left(t)
    BY <1>1 DEF NoncesOf, Left
  <1>3. ASSUME After(t, N) # None
        PROVE  /\ Left(After(t, N)) \subseteq Left(t)
               /\ Left(After(t, N)) \cap NoncesOf(t, N) = {}
    <2> DEFINE u == After(t, N)
    <2>1. u.offset = (t.offset + T) % Nonces /\ u.remaining = t.remaining - T
      BY <1>3, TakenBounds
    <2> HIDE DEF u, T
    <2>2. ASSUME NEW i \in 0 .. u.remaining - 1
          PROVE  /\ (u.offset + i) % Nonces = (t.offset + (T + i)) % Nonces
                 /\ T + i \in 0 .. t.remaining - 1
      <3>1. T + i \in 0 .. t.remaining - 1 /\ i \in Nat /\ T \in Nat /\ T + i < Nonces
        BY <1>1, <2>1
      <3>2. (((t.offset + T) % Nonces) + i) % Nonces = (t.offset + (T + i)) % Nonces
        BY <1>1, <3>1, Shift
      <3> QED
        BY <2>1, <3>1, <3>2
    <2>3. Left(u) \subseteq Left(t)
      BY <2>2 DEF Left
    <2>4. ASSUME NEW i \in 0 .. u.remaining - 1, NEW k \in 0 .. T - 1
          PROVE  (u.offset + i) % Nonces # (t.offset + k) % Nonces
      <3>1. T + i \in Nonce /\ k \in Nonce /\ k < T + i
        BY <1>1, <2>2 DEF Nonce
      <3>2. (t.offset + (T + i)) % Nonces # (t.offset + k) % Nonces
        BY <1>1, <3>1, Apart
      <3> QED
        BY <2>2, <3>2
    <2>5. Left(u) \cap NoncesOf(t, N) = {}
      BY <2>4 DEF Left, NoncesOf, T
    <2> QED
      BY <2>3, <2>5 DEF u
  <1> QED
    BY <1>2, <1>3

(* No device gets anything new into its hands.                             *)
LEMMA HandsKept ==
    ASSUME OnceInv, extra' = extra, tried' = tried,
           \A d \in Device, t \in Tracker : InHand(d, t)' => InHand(d, t)
    PROVE  OnceInv'
  <1> HIDE DEF InHand, Left
  <1> QED
    BY DEF OnceInv, OwnJobs, UntriedLeft, Left

(* A device holds one tracker at a time.                                   *)
LEMMA OneInHand ==
    ASSUME StageInv, NEW d \in Device, NEW t \in Tracker, InHand(d, t),
           attempt[d] # None, attempt[d].stage = "range"
    PROVE  t = attempt[d].seen
  BY NoneFacts DEF StageInv, InHand

LEMMA OnceOfTry ==
    ASSUME TypeInv, StageInv, OnceInv, NEW d \in Device, Try(d) PROVE OnceInv'
  <1>0. attempt[d] # None
    BY TryEffects
  <1>a. \A e \in Device, t \in Tracker : e # d => (InHand(e, t)' <=> InHand(e, t))
    BY TryIsLocal DEF InHand
  <1>n. ASSUME attempt'[d] = NextRunner(d), NEW t \in Tracker,
               attempt'[d] # None /\ t = attempt'[d].seen
        PROVE  FALSE
    <2>1. attempt[d].runner \in {1, 2}
      BY <1>0, AttemptFields DEF Runner
    <2>2. attempt'[d] = [by |-> attempt[d].by, runner |-> 2,
                         stage |-> "check", seen |-> None]
      BY <1>0, <1>n, <2>1, NextRunnerType
    <2>3. attempt'[d].seen = None
      BY <2>2
    <2> QED
      BY <1>n, <2>3, NoneFacts
  <1>1. CASE Ends(d)
    <2>1. \A t \in Tracker : InHand(d, t)' => InHand(d, t)
      BY <1>1, <1>n DEF Ends, InHand
    <2>2. \A e \in Device, t \in Tracker : InHand(e, t)' => InHand(e, t)
      BY <1>a, <2>1
    <2> QED
      BY <1>1, <2>2, HandsKept DEF Ends
  <1>2. ASSUME NEW o \in Nonce, tracker[d] = None, extra' = extra + 1,
               work > 0, extra < MaxJobs,
               UNCHANGED <<tracker, tried>>,
               attempt'[d] = GoesOn(d, "assign",
                   [job |-> [work |-> work, extra |-> extra + 1],
                    offset |-> o, remaining |-> Nonces])
        PROVE  OnceInv'
    <2> DEFINE j == [work |-> work, extra |-> extra + 1]
               n == [job |-> j, offset |-> o, remaining |-> Nonces]
    <2>1. n \in Tracker /\ n.job.extra = extra + 1
      BY <1>2, FreshTracker
    <2>2. attempt'[d].seen = n
      BY <1>2 DEF GoesOn
    <2> HIDE DEF n, j
    <2>3. \A t \in Tracker : InHand(d, t)' => t = n
      BY <1>2, <2>2, NoneFacts DEF InHand
    <2>4. extra \in Nat
      BY SizeAssumption DEF TypeInv
    <2>5. \A t \in Tracker : t.job.extra \in Nat
      BY DEF Tracker, Job
    <2>6. \A e \in Device, t \in Tracker : InHand(e, t)' =>
              IF e = d THEN t = n ELSE InHand(e, t) /\ t.job.extra <= extra
      BY <1>a, <2>3 DEF OnceInv, OwnJobs
    <2>7. OwnJobs'
      <3>1. \A e \in Device, t \in Tracker : InHand(e, t)' => t.job.extra <= extra'
        BY <1>2, <2>1, <2>4, <2>5, <2>6
      <3>2. ASSUME NEW e \in Device, NEW f \in Device, e # f,
                   NEW t \in Tracker, NEW u \in Tracker,
                   InHand(e, t)', InHand(f, u)'
            PROVE  t.job # u.job
        <4>1. CASE e # d /\ f # d
          BY <2>6, <3>2, <4>1 DEF OnceInv, OwnJobs
        <4>2. CASE e = d
          <5>1. t.job.extra = extra + 1 /\ u.job.extra <= extra
            BY <2>1, <2>6, <3>2, <4>2
          <5> QED
            BY <2>4, <2>5, <5>1
        <4>3. CASE f = d
          <5>1. u.job.extra = extra + 1 /\ t.job.extra <= extra
            BY <2>1, <2>6, <3>2, <4>3
          <5> QED
            BY <2>4, <2>5, <5>1
        <4> QED
          BY <4>1, <4>2, <4>3
      <3> QED
        BY <3>1, <3>2 DEF OwnJobs
    <2>8. UntriedLeft'
      <3>1. \A p \in tried : p[1].extra \in Nat /\ p[1].extra <= extra
        BY DEF OnceInv, UntriedLeft, TypeInv, Job
      <3>2. \A p \in tried' : p[1].extra <= extra'
        BY <1>2, <2>4, <3>1
      <3>3. ASSUME NEW e \in Device, NEW t \in Tracker, InHand(e, t)', NEW k \in Left(t)
            PROVE  <<t.job, k>> \notin tried'
        <4>1. CASE e = d
          <5>1. t.job.extra = extra + 1
            BY <2>1, <2>6, <3>3, <4>1
          <5> QED
            BY <1>2, <2>4, <3>1, <5>1
        <4>2. CASE e # d
          BY <1>2, <2>6, <3>3, <4>2 DEF OnceInv, UntriedLeft
        <4> QED
          BY <4>1, <4>2
      <3> QED
        BY <3>2, <3>3 DEF UntriedLeft, Left
    <2> QED
      BY <2>7, <2>8 DEF OnceInv
  <1>3. ASSUME NEW stage, NEW seen, attempt'[d] = GoesOn(d, stage, seen),
               seen = tracker[d] \/ seen = attempt[d].seen,
               tracker'[d] = seen, UNCHANGED <<extra, tried>>
        PROVE  OnceInv'
    <2>1. attempt'[d].seen = seen
      BY <1>3 DEF GoesOn
    <2>2. \A t \in Tracker : InHand(d, t)' => InHand(d, t)
      BY <1>0, <1>3, <2>1 DEF InHand
    <2>3. \A e \in Device, t \in Tracker : InHand(e, t)' => InHand(e, t)
      BY <1>a, <2>2
    <2> QED
      BY <1>3, <2>3, HandsKept
  <1>4. CASE attempt[d].stage = "range"
    <2> DEFINE s == attempt[d].seen
    <2>1. PICK N \in Chunks : TookRange(d, N)
      BY <1>4, RangeEffects
    <2>2. s \in Tracker /\ InHand(d, s) /\ tracker[d] \in {None, s}
      BY <1>0, <1>4, AttemptFields DEF StageInv, InHand
    <2>3. tracker'[d] \in {None, After(s, N)}
      BY <2>1, <2>2 DEF TookRange, TypeInv
    <2>4. attempt'[d] = NextRunner(d) /\ extra' = extra
      BY <1>4, <2>1, RangeEffects DEF TookRange
    <2>5. \A t \in Tracker : InHand(d, t)' => t = After(s, N)
      BY <1>n, <2>3, <2>4, NoneFacts DEF InHand
    <2>6. \A p \in tried' : p \in tried \/ \E k \in NoncesOf(s, N) : p = <<s.job, k>>
      BY <2>1 DEF TookRange
    <2>7. /\ NoncesOf(s, N) \subseteq Left(s)
          /\ After(s, N) # None => /\ Left(After(s, N)) \subseteq Left(s)
                                   /\ Left(After(s, N)) \cap NoncesOf(s, N) = {}
                                   /\ After(s, N).job = s.job
      BY <2>2, RangeIsCutOff, TakenBounds
    <2> HIDE DEF s
    <2> DEFINE A == After(s, N)
    <2>8. \A t \in Tracker : InHand(d, t)' => t = A /\ A # None
      BY <2>5, NoneFacts
    <2> HIDE DEF A
    <2>9. OwnJobs'
      <3>1. \A e \in Device, t \in Tracker : InHand(e, t)' =>
                \E u \in Tracker : InHand(e, u) /\ t.job = u.job
        BY <1>a, <2>2, <2>7, <2>8 DEF A
      <3> QED
        BY <2>4, <3>1 DEF OnceInv, OwnJobs
    <2>10. UntriedLeft'
      <3>1. \A p \in tried' : p[1].extra <= extra'
        <4>1. s.job.extra <= extra
          BY <2>2 DEF OnceInv, OwnJobs
        <4> QED
          BY <2>4, <2>6, <4>1 DEF OnceInv, UntriedLeft
      <3>2. ASSUME NEW e \in Device, NEW t \in Tracker, InHand(e, t)', NEW k \in Left(t)
            PROVE  <<t.job, k>> \notin tried'
        <4>1. CASE e = d
          <5>1. k \in Left(s) /\ k \notin NoncesOf(s, N) /\ t.job = s.job
            BY <2>7, <2>8, <3>2, <4>1 DEF A
          <5>2. <<s.job, k>> \notin tried
            BY <2>2, <5>1 DEF OnceInv, UntriedLeft
          <5> QED
            BY <2>6, <5>1, <5>2
        <4>2. CASE e # d
          <5>1. InHand(e, t) /\ t.job # s.job
            BY <1>a, <2>2, <3>2, <4>2 DEF OnceInv, OwnJobs
          <5>2. <<t.job, k>> \notin tried
            BY <3>2, <5>1 DEF OnceInv, UntriedLeft
          <5> QED
            BY <2>6, <5>1, <5>2
        <4> QED
          BY <4>1, <4>2
      <3> QED
        BY <3>1, <3>2 DEF UntriedLeft, Left
    <2> QED
      BY <2>9, <2>10 DEF OnceInv
  <1>5. CASE /\ UNCHANGED <<tracker, tried>>
             /\ extra' = extra /\ attempt'[d] = GoesOn(d, "range", tracker[d])
    BY <1>3, <1>5
  <1>6. CASE /\ tracker'[d] = attempt[d].seen /\ UNCHANGED <<extra, tried>>
             /\ attempt'[d] = GoesOn(d, "range", attempt[d].seen)
    BY <1>3, <1>6
  <1> HIDE DEF OnceInv
  <1> QED
    BY <1>1, <1>2, <1>4, <1>5, <1>6, TryEffects

(* What a try_start takes up is in hand before, so no pair is twice given. *)
LEMMA NotTwiceOfTry ==
    ASSUME TypeInv, StageInv, OnceInv, twice = FALSE, NEW d \in Device, Try(d)
    PROVE  twice' = FALSE
  <1>1. CASE TakeRange(d)
    <2> DEFINE s == attempt[d].seen
    <2>1. attempt[d] # None /\ attempt[d].stage = "range"
      BY <1>1 DEF TakeRange
    <2>2. s \in Tracker /\ InHand(d, s)
      BY <2>1, AttemptFields DEF StageInv, InHand
    <2>3. \A N \in Chunks : ({s.job} \X NoncesOf(s, N)) \cap tried = {}
      <3>1. \A N \in Chunks : NoncesOf(s, N) \subseteq Left(s)
        BY <2>2, RangeIsCutOff
      <3> QED
        BY <2>2, <3>1 DEF OnceInv, UntriedLeft
    <2>4. \E N \in Chunks :
             \/ twice' = (twice \/ ({s.job} \X NoncesOf(s, N)) \cap tried # {})
             \/ twice' = twice
      BY <1>1, Zenon DEF TakeRange
    <2>5. PICK N \in Chunks :
             \/ twice' = (twice \/ ({s.job} \X NoncesOf(s, N)) \cap tried # {})
             \/ twice' = twice
      BY <2>4
    <2>6. ({s.job} \X NoncesOf(s, N)) \cap tried = {}
      BY <2>3
    <2> DEFINE P == ({s.job} \X NoncesOf(s, N)) \cap tried # {}
    <2>7. ~P
      BY <2>6
    <2>8. twice' = (twice \/ P) \/ twice' = twice
      BY <2>5
    <2> HIDE DEF P
    <2> QED
      BY <2>7, <2>8, Zenon
  <1>2. CASE Try(d) /\ ~TakeRange(d)
    BY <1>2, Zenon DEF Try, SkipBusy, Refuse, Generate, SeeJob, Assign, ghosts
  <1> QED
    BY <1>1, <1>2

LEMMA OnceKept ==
    ASSUME TypeInv, StageInv, OnceInv, [Next]_vars PROVE OnceInv'
  <1>1. CASE UNCHANGED vars
    BY <1>1, HandsKept DEF vars, jobVars, ghosts, InHand
  <1>2. ASSUME NEW d \in Device, Try(d) PROVE OnceInv'
    BY <1>2, OnceOfTry
  <1>3. ASSUME NEW d \in Device, NEW who, Began(d, who),
               UNCHANGED <<extra, tracker, tried>>
        PROVE  OnceInv'
    <2>1. \A t \in Tracker : InHand(d, t)' => InHand(d, t)
      BY <1>3, BeganEffects, NoneFacts DEF InHand
    <2>2. \A e \in Device, t \in Tracker : InHand(e, t)' => InHand(e, t)
      BY <1>3, <2>1, BeganEffects DEF InHand
    <2> QED
      BY <1>3, <2>2, HandsKept
  <1>4. ASSUME NEW d \in Device, AllocationPossible(d) PROVE OnceInv'
    BY <1>3, <1>4 DEF AllocationPossible, jobVars, ghosts
  <1>5. ASSUME NEW d \in Device, NEW r \in Runner, KernelEnds(d, r) PROVE OnceInv'
    BY <1>5, HandsKept DEF KernelEnds, jobVars, ghosts, InHand
  <1>6. ASSUME NEW d \in Device, NEW r \in Runner, HandleFinished(d, r) PROVE OnceInv'
    BY <1>3, <1>6 DEF HandleFinished, jobVars, ghosts
  <1>7. CASE DropBuffer
    BY <1>7, HandsKept DEF DropBuffer, jobVars, ghosts, InHand
  <1>8. CASE SetWork
    BY <1>8, HandsKept DEF SetWork, ghosts, InHand
  <1>9. ASSUME NEW d \in Device, Activate(d) PROVE OnceInv'
    BY <1>9, HandsKept DEF Activate, jobVars, ghosts, InHand
  <1>10. CASE ClearJob
    <2>1. /\ tracker' = [tracker EXCEPT ![setter.device] = None]
          /\ UNCHANGED <<extra, attempt, tried>>
      BY <1>10 DEF ClearJob, ghosts
    <2>2. \A e \in Device : tracker'[e] \in {None, tracker[e]}
      BY <2>1 DEF TypeInv
    <2>3. \A e \in Device, t \in Tracker : InHand(e, t)' => InHand(e, t)
      BY <2>1, <2>2, NoneFacts DEF InHand
    <2> QED
      BY <2>1, <2>3, HandsKept
  <1>11. CASE StartDevice
    <2>1. setter.device \in Device
      BY <1>11 DEF StartDevice, TypeInv
    <2> QED
      BY <1>3, <1>11, <2>1 DEF StartDevice, jobVars, ghosts
  <1>12. CASE SetWorkReturns
    BY <1>12, HandsKept DEF SetWorkReturns, jobVars, ghosts, InHand
  <1> QED
    BY <1>1, <1>2, <1>4, <1>5, <1>6, <1>7, <1>8, <1>9, <1>10, <1>11, <1>12
    DEF Next, SetStep

LEMMA NotTwiceKept ==
    ASSUME TypeInv, StageInv, OnceInv, twice = FALSE, [Next]_vars
    PROVE  twice' = FALSE
  <1>1. ASSUME NEW d \in Device, Try(d) PROVE twice' = FALSE
    BY <1>1, NotTwiceOfTry
  <1>2. CASE UNCHANGED vars
    BY <1>2 DEF vars, ghosts
  <1>3. ASSUME NEW d \in Device, NEW r \in Runner,
               AllocationPossible(d) \/ KernelEnds(d, r) \/ HandleFinished(d, r)
        PROVE  twice' = FALSE
    BY <1>3 DEF AllocationPossible, KernelEnds, HandleFinished, ghosts
  <1>4. CASE DropBuffer \/ SetWork \/ SetStep
    BY <1>4 DEF DropBuffer, SetWork, SetStep, Activate, ClearJob, StartDevice,
                SetWorkReturns, ghosts
  <1>5. 1 \in Runner
    BY DEF Runner
  <1> QED
    BY <1>1, <1>2, <1>3, <1>4, <1>5 DEF Next

(* Only a release clears failedAlloc, only a failed allocation sets it.    *)
LEMMA FailedKept ==
    ASSUME failed \in BOOLEAN, [Next]_vars PROVE failed' \in BOOLEAN
  <1>1. ASSUME NEW d \in Device, Try(d) PROVE failed' \in BOOLEAN
    BY <1>1, Zenon DEF Try, SkipBusy, Refuse, Generate, SeeJob, Assign, TakeRange,
                       ringVars
  <1>2. CASE UNCHANGED vars
    BY <1>2 DEF vars, ringVars
  <1>3. ASSUME NEW d \in Device, NEW r \in Runner,
               AllocationPossible(d) \/ KernelEnds(d, r) \/ HandleFinished(d, r)
        PROVE  failed' \in BOOLEAN
    BY <1>3 DEF AllocationPossible, KernelEnds, HandleFinished, ringVars
  <1>4. CASE DropBuffer \/ SetWork \/ SetStep
    BY <1>4 DEF DropBuffer, SetWork, SetStep, Activate, ClearJob, StartDevice,
                SetWorkReturns, ringVars
  <1>5. 1 \in Runner
    BY DEF Runner
  <1> QED
    BY <1>1, <1>2, <1>3, <1>4, <1>5 DEF Next

-----------------------------------------------------------------------------
Inv ==
    /\ TypeInv /\ StageInv /\ RoomInv /\ FreshInv /\ IdleInv /\ OnceInv
    /\ twice = FALSE /\ failed \in BOOLEAN

LEMMA InvAtInit == Init => Inv
  <1> SUFFICES ASSUME Init PROVE Inv
    OBVIOUS
  <1>1. TypeInv
    BY SizeAssumption DEF Init, TypeInv
  <1>2. StageInv
    BY DEF Init, StageInv
  <1>3. RoomInv
    <2>1. Kernels = {}
      BY DEF Init, Kernels
    <2>2. InUse = 0
      BY <2>1, FS_EmptySet DEF Init, InUse
    <2>3. \A d \in Device : ~AllocatorOf(d)
      BY DEF Init, AllocatorOf
    <2> HIDE DEF InUse, AllocatorOf
    <2> QED
      BY <2>2, <2>3, SizeAssumption DEF RoomInv
  <1>4. FreshInv
    BY DEF Init, FreshInv, Fresh, Done, SetterAt, NewTracker, NewSeen, NewToStore,
           NewToShare
  <1>5. IdleInv
    BY DEF Init, IdleInv, Served
  <1>6. OnceInv
    <2>1. \A d \in Device, t \in Tracker : ~InHand(d, t)
      BY NoneFacts DEF Init, InHand
    <2> QED
      BY <2>1 DEF Init, OnceInv, OwnJobs, UntriedLeft
  <1> QED
    BY <1>1, <1>2, <1>3, <1>4, <1>5, <1>6 DEF Init, Inv

LEMMA InvKept == Inv /\ [Next]_vars => Inv'
  <1> SUFFICES ASSUME Inv, [Next]_vars PROVE Inv'
    OBVIOUS
  <1>1. /\ TypeInv /\ StageInv /\ RoomInv /\ FreshInv /\ IdleInv /\ OnceInv
        /\ twice = FALSE /\ failed \in BOOLEAN
    BY DEF Inv
  <1>2. TypeInv' /\ StageInv' /\ RoomInv'
    BY <1>1, TypeKept, StageKept, RoomKept
  <1>3. FreshInv' /\ IdleInv' /\ OnceInv'
    BY <1>1, FreshKept, IdleKept, OnceKept
  <1>4. twice' = FALSE /\ failed' \in BOOLEAN
    BY <1>1, NotTwiceKept, FailedKept
  <1> QED
    BY <1>2, <1>3, <1>4 DEF Inv

LEMMA InvHolds == Spec => []Inv
  <1>1. Init => Inv
    BY InvAtInit
  <1>2. Inv /\ [Next]_vars => Inv'
    BY InvKept
  <1> QED
    BY <1>1, <1>2, PTL DEF Spec

(* However many devices, nonces and Buffers there are, no nonce of a job   *)
(* is given to a kernel twice: get_job cuts its range off, and every job   *)
(* of the generator is in the hands of one device.                         *)
THEOREM NoNonceTwiceHolds == Spec => []NoNonceTwice
  <1>1. Inv => NoNonceTwice
    BY DEF Inv, NoNonceTwice
  <1> QED
    BY <1>1, InvHolds, PTL

(* Once set_work has returned, no device keeps a job of older work, and no *)
(* try_start is about to store one.                                        *)
THEOREM FreshAfterSetWorkHolds == Spec => []FreshAfterSetWork
  <1>1. Inv => FreshAfterSetWork
    <2> SUFFICES ASSUME Inv, setter.stage = "idle", NEW d \in Device
                 PROVE  NewTracker(d) /\ NewSeen(d)
      BY DEF FreshAfterSetWork, NewTracker, NewSeen
    <2>1. Done(d)
      BY DEF Inv, FreshInv, Done, SetterAt
    <2> QED
      BY <2>1 DEF Inv, FreshInv, Fresh
  <1> QED
    BY <1>1, InvHolds, PTL

(* A runner whose device is settled computes, or the ring refused it.      *)
THEOREM IdleOnlyIfRefusedHolds == Spec => []IdleOnlyIfRefused
  <1>1. Inv => IdleOnlyIfRefused
    <2> SUFFICES ASSUME Inv, NEW d \in Device, Settled(d), NEW r \in Runner
                 PROVE  Occupied(d, r)
      BY DEF IdleOnlyIfRefused, Occupied
    <2>1. d \in active /\ attempt[d] = None /\ ~Owed(d)
      BY DEF Settled, Owed, SetterAt, Unlocked
    <2>2. Occupied(d, 1) /\ Occupied(d, 2)
      BY <2>1 DEF Inv, IdleInv, Served
    <2> QED
      BY <2>2 DEF Runner
  <1> QED
    BY <1>1, InvHolds, PTL

(* Every variable keeps its type; in particular the Buffers with results   *)
(* never outnumber the ring's.                                             *)
THEOREM TypeOKHolds == Spec => []TypeOK
  <1>1. Inv => TypeOK
    <2> SUFFICES ASSUME Inv PROVE TypeOK
      OBVIOUS
    <2>1. held \in 0 .. Capacity
      BY KernelsFinite, SizeAssumption DEF Inv, TypeInv, RoomInv, InUse
    <2>2. failed \in BOOLEAN /\ twice \in BOOLEAN
      BY DEF Inv
    <2> QED
      BY <2>1, <2>2 DEF Inv, TypeInv, TypeOK
  <1> QED
    BY <1>1, InvHolds, PTL
=============================================================================
