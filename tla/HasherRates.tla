---------------------------- MODULE HasherRates ----------------------------
(***************************************************************************)
(* The bookkeeping of hash rates between the devices and the hasher, and   *)
(* the mutexes the threads take while they do it                           *)
(* (gpu/opencl_hasher.{hpp,cpp}, MiningCoordinator of device_pool.cpp).    *)
(*                                                                         *)
(* Threads: callbacks of kernels; the coordinator, which prints, computes  *)
(* the fraction and stops the devices; the thread that sets work, which is *)
(* the coordinator too when mining for a node, and the network thread, at  *)
(* the same time as the coordinator does the others, when mining for a     *)
(* pool; and a thread that frees a Buffer.                                 *)
(*                                                                         *)
(* Every device remembers the rate it has last reported (prevHashrate);    *)
(* the hasher adds up the differences (totalHashrate), and the fraction of *)
(* candidates a kernel keeps is the CPU's rate over that total.  Reports   *)
(* come from the callbacks of kernels, under the device's mutex, and from  *)
(* hashrates(), which print_hashrate calls every ten seconds and which     *)
(* holds the hasher's mutex only.                                          *)
(*                                                                         *)
(* Mutexes: of each device, of the hasher, of the ring, and st.m of the    *)
(* coordinator's events.  A device's is held exactly while attempt[d] is   *)
(* not None.  The ring's is held by the thread that frees a Buffer while   *)
(* it runs allocation_possible, and by a try_start from the Allocator to   *)
(* the allocation; both it and the devices' are recursive.  The hasher's   *)
(* is held by the coordinator during hashrates and stop_mining, st.m       *)
(* during all of print_hashrate; elsewhere both protect single steps.      *)
(* Left out are the mutexes under which no other is taken, a runner's,     *)
(* which nobody asks for while a try_start keeps it, since its device's is *)
(* held too and its kernel does not run, and the job queue's: who waits    *)
(* for that one holds none.  The ring itself is reduced to the number of   *)
(* its Buffers.                                                            *)
(***************************************************************************)
EXTENDS Integers, FiniteSets, Functions   \* SumFunction

CONSTANTS
    Devices,   \* number of devices, iterated over in order
    Rates,     \* what HashrateWatcher::hashrate can return
    Capacity,  \* bound: Buffers that fit into the ring
    MaxStops,  \* bound: times the node is found to be down
    None

Device == 1 .. Devices
Runner == 1 .. 2

ASSUME RatesAssumption == Devices \in Nat /\ 0 \in Rates /\ Rates \subseteq Nat
ASSUME BoundAssumption == Capacity \in Nat /\ MaxStops \in Nat

VARIABLES
    mode,      \* "node" or "pool", chosen on the command line
    prev,      \* prevHashrate of each device
    measured,  \* devices whose hashrateWatcher has snapshots
    active,    \* active devices
    total,     \* totalHashrate
    fraction,  \* the sign of fraction, which is +inf after a division by zero
    coord,     \* what the coordinator's thread does, and its next device
    setting,   \* where set_work is, and its next device
    attempt,   \* the thread that holds a device's mutex: where it is
    kernels,   \* per device: the runners whose kernels run
    callers,   \* per device: callbacks that wait for its mutex
    held,      \* Buffers of ended kernels
    failed,    \* an allocation failed and the callback is owed
    freeing,   \* the next device of the thread in allocation_possible
    stops,     \* number of calls of stop_mining
    aborted,   \* an assertion failed
    raced      \* history: hashrates() and a callback met in hashrate()

rates == <<prev, measured, total>>
ring  == <<kernels, callers, held, failed, freeing>>
rest  == <<mode, fraction, stops, aborted>>
vars  == <<rates, active, coord, setting, attempt, ring, rest, raced>>

(* hashrate() has computed its result, but not yet stored it.              *)
Report == [rate : Rates, delta : Int]

(* "printed": hashrates() has returned, but run() still holds st.m.        *)
Coord ==
    [op : {"idle", "printed"}]
    \cup [op : {"print"}, at : Device \cup {Devices + 1}, report : Report \cup {None}]
    \cup [op : {"stop"}, at : Device \cup {Devices + 1}]

(* "generator": set_work is to replace the generator.                      *)
Setting ==
    [op : {"idle", "generator"}]
    \cup [op : {"reset", "start"}, at : Device \cup {Devices + 1}]

(* "lock": the callback has the mutex; "store": it is inside hashrate();   *)
(* "add": it is to add delta to the total; "push": it hands its values to  *)
(* the coordinator; "ring": try_start looks at a runner; "generate": it    *)
(* holds the Allocator and wants a job; "alloc": it holds the Allocator    *)
(* and has a range of nonces.                                              *)
Fraction == {"positive", "negative"}
Attempt ==
    [by : {"callback"}, stage : {"lock", "push"}]
    \cup [by : {"callback"}, stage : {"store", "add"}, report : Report]
    \cup [by : {"callback", "set", "free"}, stage : {"ring", "generate", "alloc"},
           runner : Runner, f : Fraction]

ASSUME NoneAssumption == None \notin Attempt

TypeOK ==
    /\ mode \in {"node", "pool"}
    /\ prev \in [Device -> Rates] /\ measured \in SUBSET Device
    /\ active \in SUBSET Device
    /\ total \in Int
    /\ fraction \in Fraction
    /\ coord \in Coord /\ setting \in Setting
    /\ \A d \in Device : attempt[d] \in Attempt \cup {None}
    /\ kernels \in [Device -> SUBSET Runner]
    /\ callers \in [Device -> 0 .. Capacity] /\ held \in 0 .. Capacity
    /\ failed \in BOOLEAN
    /\ freeing \in 0 .. Devices + 1
    /\ stops \in 0 .. MaxStops /\ aborted \in BOOLEAN /\ raced \in BOOLEAN

Init ==
    /\ mode \in {"node", "pool"}
    /\ prev = [d \in Device |-> 0] /\ measured = {} /\ active = {}
    /\ total = 0 /\ fraction = "positive"
    /\ coord = [op |-> "idle"] /\ setting = [op |-> "idle"]
    /\ attempt = [d \in Device |-> None]
    /\ kernels = [d \in Device |-> {}] /\ callers = [d \in Device |-> 0]
    /\ held = 0 /\ failed = FALSE
    /\ freeing = 0
    /\ stops = 0 /\ aborted = FALSE /\ raced = FALSE

(***************************************************************************)
(* Mutexes                                                                 *)
(***************************************************************************)
At(d, stage) == attempt[d] # None /\ attempt[d].stage = stage
(* Faulty: set_work keeps the mutex while it starts the devices.           *)
HasherHeldInSetWork ==
    coord.op \in {"print", "stop"} \/ setting.op \in {"reset", "start"}

HasherHeld    == coord.op \in {"print", "stop"}
EventsHeld    == coord.op \in {"print", "printed"}
DeviceHeld(d) == attempt[d] # None
AllocatorOf(d) == At(d, "generate") \/ At(d, "alloc")
(* The thread that runs try_start on d can take the ring's mutex.          *)
CanLockRing(d) ==
    /\ \A e \in Device : ~AllocatorOf(e)
    /\ freeing # 0 => attempt[d].by = "free"

(***************************************************************************)
(* Rates                                                                   *)
(***************************************************************************)
Measured(d) == IF d \in measured THEN Rates ELSE {0}
ReportOf(d, rate) == [rate |-> rate, delta |-> rate - prev[d]]

(* on_complete empties the runner before it asks for the device's mutex.   *)
KernelEnds(d, r) ==
    /\ r \in kernels[d]
    /\ kernels' = [kernels EXCEPT ![d] = @ \ {r}]
    /\ callers' = [callers EXCEPT ![d] = @ + 1]
    /\ held' = held + 1
    /\ UNCHANGED <<rates, active, coord, setting, attempt, failed, freeing, rest, raced>>

(* handle_finished_job of a device: the callback gets the mutex and        *)
(* registers the hashes.                                                   *)
Callback(d) ==
    /\ callers[d] > 0 /\ ~DeviceHeld(d)
    /\ callers' = [callers EXCEPT ![d] = @ - 1]
    /\ attempt' = [attempt EXCEPT ![d] = [by |-> "callback", stage |-> "lock"]]
    /\ measured' = measured \cup {d}
    /\ UNCHANGED <<prev, total, active, coord, setting, kernels, held, failed, freeing,
                   rest, raced>>

Printing(d) == coord.op = "print" /\ coord.at = d /\ coord.report # None

(* hashrate() reads prevHashrate ...                                       *)
CallbackReads(d) ==
    /\ At(d, "lock")
    /\ \E rate \in Measured(d) :
        attempt' = [attempt EXCEPT ![d] =
            [by |-> "callback", stage |-> "store", report |-> ReportOf(d, rate)]]
    /\ raced' = (raced \/ Printing(d))
    /\ UNCHANGED <<rates, active, coord, setting, ring, rest>>

(* ... and writes it.                                                      *)
CallbackStores(d) ==
    /\ At(d, "store")
    /\ prev' = [prev EXCEPT ![d] = attempt[d].report.rate]
    /\ attempt' = [attempt EXCEPT ![d].stage = "add"]
    /\ UNCHANGED <<measured, total, active, coord, setting, ring, rest, raced>>

(* An active device's try_start reads the fraction and tries both runners. *)
Trying(d, who) ==
    IF d \in active
    THEN [by |-> who, stage |-> "ring", runner |-> 1, f |-> fraction]
    ELSE None

(* Faulty: the rate itself is added.                                       *)
CallbackAddsRate(d) ==
    /\ At(d, "add") /\ ~HasherHeld
    /\ total' = total + attempt[d].report.rate
    /\ attempt' = [attempt EXCEPT ![d] = [by |-> "callback", stage |-> "push"]]
    /\ UNCHANGED <<prev, measured, active, coord, setting, ring, rest, raced>>

(* The hasher's handle_finished_job adds the difference ...                *)
CallbackAdds(d) ==
    /\ At(d, "add") /\ ~HasherHeld
    /\ total' = total + attempt[d].report.delta
    /\ attempt' = [attempt EXCEPT ![d] = [by |-> "callback", stage |-> "push"]]
    /\ UNCHANGED <<prev, measured, active, coord, setting, ring, rest, raced>>

(* ... and push_event of the coordinator takes the values, under st.m;     *)
(* then the device's runners are tried.                                    *)
CallbackPushes(d) ==
    /\ At(d, "push") /\ ~EventsHeld
    /\ attempt' = [attempt EXCEPT ![d] = Trying(d, "callback")]
    /\ UNCHANGED <<rates, active, coord, setting, ring, rest, raced>>

(***************************************************************************)
(* The coordinator                                                         *)
(***************************************************************************)
(* The coordinator is free; for a node it is the one who sets work.        *)
Idle == coord.op = "idle" /\ (mode = "node" => setting.op = "idle")

(* print_hashrate: hashrates() takes the hasher's mutex and asks each      *)
(* device without taking the device's.                                     *)
BeginPrint ==
    /\ Idle
    /\ coord' = [op |-> "print", at |-> 1, report |-> None]
    /\ UNCHANGED <<rates, active, setting, attempt, ring, rest, raced>>

PrintReads ==
    /\ coord.op = "print" /\ coord.at \in Device /\ coord.report = None
    /\ \E rate \in Measured(coord.at) :
        coord' = [coord EXCEPT !.report = ReportOf(coord.at, rate)]
    /\ raced' = (raced \/ At(coord.at, "store"))
    /\ UNCHANGED <<rates, active, setting, attempt, ring, rest>>

PrintStores ==
    /\ coord.op = "print" /\ coord.at \in Device /\ coord.report # None
    /\ prev' = [prev EXCEPT ![coord.at] = coord.report.rate]
    /\ total' = total + coord.report.delta
    /\ coord' = [coord EXCEPT !.at = @ + 1, !.report = None]
    /\ UNCHANGED <<measured, active, setting, attempt, ring, rest, raced>>

(* hashrates() returns; the workers' rates are printed, still under st.m.  *)
HashratesReturns ==
    /\ coord.op = "print" /\ coord.at = Devices + 1
    /\ coord' = [op |-> "printed"]
    /\ UNCHANGED <<rates, active, setting, attempt, ring, rest, raced>>

EndPrint ==
    /\ coord.op = "printed"
    /\ coord' = [op |-> "idle"]
    /\ UNCHANGED <<rates, active, setting, attempt, ring, rest, raced>>

(* The node did not answer: stop_mining of the hasher takes its mutex and  *)
(* then each device's.                                                     *)
Stop ==
    /\ Idle /\ mode = "node" /\ stops < MaxStops
    /\ stops' = stops + 1
    /\ coord' = [op |-> "stop", at |-> 1]
    /\ UNCHANGED <<mode, rates, active, setting, attempt, ring, fraction, aborted, raced>>

StopDevice ==
    /\ coord.op = "stop" /\ coord.at \in Device /\ ~DeviceHeld(coord.at)
    /\ measured' = measured \ {coord.at}
    /\ active' = active \ {coord.at}
    /\ total' = total + prev[coord.at]
    /\ prev' = [prev EXCEPT ![coord.at] = 0]
    /\ coord' = [coord EXCEPT !.at = @ + 1]
    /\ UNCHANGED <<setting, attempt, ring, rest, raced>>

(* stop_mining returns, after its assertion.                               *)
StopReturns ==
    /\ coord.op = "stop" /\ coord.at = Devices + 1
    /\ aborted' = (total # 0)
    /\ coord' = [op |-> "idle"]
    /\ UNCHANGED <<mode, rates, active, setting, attempt, ring, fraction, stops, raced>>

(* update_verushashrate, once all workers have reported a timing.          *)
UpdateFraction ==
    /\ Idle
    /\ fraction' = IF total < 0 THEN "negative" ELSE "positive"
    /\ UNCHANGED <<mode, rates, active, coord, setting, attempt, ring, stops, aborted,
                   raced>>

(***************************************************************************)
(* set_work, on the coordinator's thread for a node and on the network     *)
(* thread for a pool                                                       *)
(***************************************************************************)
TriesOf(who) == {d \in Device : attempt[d] # None /\ attempt[d].by = who}

SetWork ==
    /\ setting.op = "idle" /\ (mode = "node" => Idle)
    /\ setting' = [op |-> "generator"]
    /\ UNCHANGED <<rates, active, coord, attempt, ring, rest, raced>>

(* The generator is replaced under the hasher's mutex; then comes          *)
(* reset_start of every device, which takes its mutex to set active and    *)
(* again for try_start.                                                    *)
NewGenerator ==
    /\ setting.op = "generator" /\ ~HasherHeld
    /\ setting' = [op |-> "reset", at |-> 1]
    /\ UNCHANGED <<rates, active, coord, attempt, ring, rest, raced>>

Activate ==
    /\ setting.op = "reset" /\ TriesOf("set") = {}
    /\ setting.at \in Device /\ ~DeviceHeld(setting.at)
    /\ active' = active \cup {setting.at}
    /\ setting' = [setting EXCEPT !.op = "start"]
    /\ UNCHANGED <<rates, coord, attempt, ring, rest, raced>>

Start ==
    /\ setting.op = "start" /\ ~DeviceHeld(setting.at)
    /\ attempt' = [attempt EXCEPT ![setting.at] = Trying(setting.at, "set")]
    /\ setting' = [op |-> "reset", at |-> setting.at + 1]
    /\ UNCHANGED <<rates, active, coord, ring, rest, raced>>

SetWorkReturns ==
    /\ setting.op = "reset" /\ setting.at = Devices + 1 /\ TriesOf("set") = {}
    /\ setting' = [op |-> "idle"]
    /\ UNCHANGED <<rates, active, coord, attempt, ring, rest, raced>>

(***************************************************************************)
(* try_start                                                               *)
(***************************************************************************)
InUse == held + SumFunction([d \in Device |-> Cardinality(kernels[d])])
(* Faulty: one Buffer too many.                                            *)
FullLate == InUse > Capacity
Full     == InUse >= Capacity

Idling(d) == At(d, "ring") /\ attempt[d].runner \notin kernels[d]

NextRunner(d) ==
    IF attempt[d].runner = 1
    THEN [by |-> attempt[d].by, stage |-> "ring", runner |-> 2, f |-> attempt[d].f]
    ELSE None

(* assert(fraction > 0.0) comes first.                                     *)
TryAborts(d) ==
    /\ At(d, "ring") /\ attempt[d].f = "negative"
    /\ aborted' = TRUE
    /\ UNCHANGED <<mode, rates, active, coord, setting, attempt, ring, fraction, stops,
                   raced>>

(* The runner has a kernel, or the ring is full.                           *)
TrySkips(d) ==
    /\ At(d, "ring") /\ attempt[d].f # "negative"
    /\ Idling(d) => CanLockRing(d) /\ Full
    /\ attempt' = [attempt EXCEPT ![d] = NextRunner(d)]
    /\ UNCHANGED <<rates, active, coord, setting, ring, rest, raced>>

(* The Allocator is taken; the device has a job with nonces left or not.   *)
TakeAllocator(d) ==
    /\ Idling(d) /\ attempt[d].f # "negative" /\ CanLockRing(d) /\ ~Full
    /\ \E stage \in {"generate", "alloc"} :
        attempt' = [attempt EXCEPT ![d].stage = stage]
    /\ UNCHANGED <<rates, active, coord, setting, ring, rest, raced>>

(* generate_job takes the hasher's mutex.                                  *)
GenerateJob(d) ==
    /\ At(d, "generate") /\ ~HasherHeld
    /\ attempt' = [attempt EXCEPT ![d].stage = "alloc"]
    /\ UNCHANGED <<rates, active, coord, setting, ring, rest, raced>>

(* The kernel starts, unless the allocation fails after all.               *)
Allocate(d) ==
    /\ At(d, "alloc")
    /\ \/ /\ kernels' = [kernels EXCEPT ![d] = @ \cup {attempt[d].runner}]
          /\ failed' = failed
       \/ /\ InUse > 0
          /\ failed' = TRUE
          /\ kernels' = kernels
    /\ attempt' = [attempt EXCEPT ![d] = NextRunner(d)]
    /\ UNCHANGED <<rates, active, coord, setting, callers, held, freeing, rest, raced>>

(***************************************************************************)
(* Buffers are dropped                                                     *)
(***************************************************************************)
(* The values of a callback that has not handed them on yet.               *)
InCallbacks ==
    SumFunction(callers)
    + Cardinality(
        {d \in Device : \E stage \in {"lock", "store", "add", "push"} : At(d, stage)})

(* A worker or the coordinator drops a Buffer, and frees it under the      *)
(* ring's mutex; it holds at most the job queue's besides.                 *)
DropBuffer ==
    /\ held > InCallbacks
    /\ freeing = 0 /\ \A d \in Device : ~AllocatorOf(d)
    /\ held' = held - 1 /\ failed' = FALSE
    /\ freeing' = IF failed THEN 1 ELSE 0
    /\ UNCHANGED <<rates, active, coord, setting, attempt, kernels, callers, rest, raced>>

(* allocation_possible tries the devices in turn.                          *)
AllocationPossible ==
    /\ freeing \in Device /\ TriesOf("free") = {} /\ ~DeviceHeld(freeing)
    /\ attempt' = [attempt EXCEPT ![freeing] = Trying(freeing, "free")]
    /\ freeing' = freeing + 1
    /\ UNCHANGED <<rates, active, coord, setting, kernels, callers, held, failed, rest,
                   raced>>

FreeReturns ==
    /\ freeing = Devices + 1 /\ TriesOf("free") = {}
    /\ freeing' = 0
    /\ UNCHANGED <<rates, active, coord, setting, attempt, kernels, callers, held, failed,
                   rest, raced>>

Try(d) == TryAborts(d) \/ TrySkips(d) \/ TakeAllocator(d) \/ GenerateJob(d) \/ Allocate(d)

Coordinate ==
    \/ BeginPrint \/ PrintReads \/ PrintStores \/ HashratesReturns \/ EndPrint
    \/ Stop \/ StopDevice \/ StopReturns
    \/ UpdateFraction

SetsWork == SetWork \/ NewGenerator \/ Activate \/ Start \/ SetWorkReturns

Next ==
    /\ ~aborted
    /\ \/ \E d \in Device :
            \/ \E r \in Runner : KernelEnds(d, r)
            \/ Callback(d) \/ CallbackReads(d) \/ CallbackStores(d) \/ CallbackAdds(d)
            \/ CallbackPushes(d)
            \/ Try(d)
       \/ Coordinate \/ SetsWork
       \/ DropBuffer \/ AllocationPossible \/ FreeReturns

Spec == Init /\ [][Next]_vars

(***************************************************************************)
(* Properties                                                              *)
(***************************************************************************)
(* The hasher's total is the sum of the rates the devices have reported,   *)
(* up to differences that a callback carries from its device to the        *)
(* hasher, whatever prints, callbacks and calls of set_work overlap, as    *)
(* long as no print met a callback inside hashrate().  (stop_mining adds   *)
(* what it should subtract.)                                               *)
RateSum ==
    (~raced /\ ~aborted /\ coord.op # "stop") =>
        total + SumFunction([d \in Device |->
                                IF At(d, "add") THEN attempt[d].report.delta ELSE 0])
          = SumFunction(prev)

(* Threads and the mutexes they wait for.  A callback that waits for its   *)
(* device's mutex is left out, since it holds none.                        *)
TheCoord   == <<"coord", 0>>
TheNetwork == <<"network", 0>>
TheFree    == <<"free", 0>>
TheSetter  == IF mode = "pool" THEN TheNetwork ELSE TheCoord
ThreadOf(d) ==
    CASE attempt[d].by = "set"  -> TheSetter
      [] attempt[d].by = "free" -> TheFree
      [] OTHER                  -> <<"callback", d>>

WaitsOfSetWork ==
    {<<TheSetter, ThreadOf(d)>> : d \in {d \in Device :
        DeviceHeld(d) /\ setting.op \in {"reset", "start"} /\ setting.at = d
                      /\ TriesOf("set") = {}}}
WaitsForHasher ==
    {<<ThreadOf(d), TheCoord>> : d \in {d \in Device :
        HasherHeld /\ (At(d, "add") \/ At(d, "generate"))}}
    \cup {p \in {<<TheSetter, TheCoord>>} : HasherHeld /\ setting.op = "generator"}
WaitsForEvents ==
    {<<ThreadOf(d), TheCoord>> : d \in {d \in Device : EventsHeld /\ At(d, "push")}}
WaitsForRing ==
    {<<ThreadOf(p[1]), ThreadOf(p[2])>> : p \in {p \in Device \X Device :
        Idling(p[1]) /\ AllocatorOf(p[2])}}
    \cup
    {<<ThreadOf(d), TheFree>> : d \in {d \in Device :
        Idling(d) /\ freeing # 0 /\ attempt[d].by # "free"}}

Circular(waits) ==
    \E T \in SUBSET {w[1] : w \in waits} :
        T # {} /\ \A t \in T : \E u \in T : <<t, u>> \in waits

(* Threads wait for each other in a circle only through stop_mining, which *)
(* asks for the devices' mutexes while it holds the hasher's, or through   *)
(* allocation_possible, which does so under the ring's: without the waits  *)
(* of these two for devices, print_hashrate under st.m, set_work on the    *)
(* coordinator's or on the network thread, callbacks and the trying of     *)
(* runners cannot deadlock.                                                *)
CircularWaitsKnown ==
    ~Circular(WaitsOfSetWork \cup WaitsForHasher \cup WaitsForEvents \cup WaitsForRing)

(* assert(totalHashrate == 0) at the end of stop_mining.                   *)
TotalZeroAfterStop ==
    (coord.op = "stop" /\ coord.at = Devices + 1) => total = 0

(* assert(fraction > 0.0) at the beginning of a runner's try_start.        *)
FractionPositive == \A d \in Device : At(d, "ring") => attempt[d].f # "negative"
=============================================================================
