-------------------------- MODULE HasherRates_proofs --------------------------
(***************************************************************************)
(* For any number of devices: the threads of the hasher wait for each      *)
(* other in a circle only through stop_mining or allocation_possible,      *)
(* whether the coordinator or the network's thread sets work               *)
(* (CircularWaitsKnown).                                                   *)
(*                                                                         *)
(* The invariant says on which thread set_work runs (the end of            *)
(* TypesKnown), who can be in a try_start (TriesKnown) and who holds the   *)
(* ring's mutex (RingKnown).  From it follows that a thread that waits     *)
(* waits for one that runs, or for one that waits for one that runs, at    *)
(* most three steps away.                                                  *)
(***************************************************************************)
EXTENDS HasherRates, DataLemmas

TypesKnown ==
    /\ prev \in [Device -> Rates] /\ total \in Int /\ fraction \in Fraction
    /\ attempt \in [Device -> Attempt \cup {None}]
    /\ coord \in Coord /\ freeing \in 0 .. Devices + 1
    /\ setting \in Setting /\ (setting.op = "start" => setting.at \in Device)
    /\ mode \in {"node", "pool"}
    /\ mode = "node" => coord.op = "idle" \/ setting.op = "idle"

By(d, who) == attempt[d] # None /\ attempt[d].by = who

(* The thread that sets work and that of a free are in one try_start at a  *)
(* time, and only inside set_work and allocation_possible.                 *)
TriesKnown ==
    /\ \A d \in Device : By(d, "set") => setting.op = "reset"
    /\ \A d \in Device : By(d, "free") => freeing # 0
    /\ \A who \in {"set", "free"} :
          \A d, e \in Device : By(d, who) /\ By(e, who) => d = e

(* One try_start holds the Allocator; during a free it is the free's.      *)
RingKnown ==
    /\ \A d, e \in Device : AllocatorOf(d) /\ AllocatorOf(e) => d = e
    /\ \A d \in Device : AllocatorOf(d) /\ freeing # 0 => By(d, "free")

WaitInv == TypesKnown /\ TriesKnown /\ RingKnown

LEMMA WaitInit == Init => WaitInv
  <1> SUFFICES ASSUME Init PROVE WaitInv
    OBVIOUS
  <1>1. TypesKnown
    BY RatesAssumption DEF Init, TypesKnown, Fraction, Coord, Setting
  <1>2. \A d \in Device : attempt[d] = None
    BY DEF Init
  <1> QED
    BY <1>1, <1>2 DEF WaitInv, TriesKnown, RingKnown, By, AllocatorOf, At

-----------------------------------------------------------------------------
(* What can be in attempt[d].                                              *)
LEMMA AttemptKinds ==
    ASSUME TypesKnown, NEW d \in Device, attempt[d] # None
    PROVE  /\ attempt[d] \in Attempt
           /\ attempt[d].by \in {"callback", "set", "free"}
           /\ attempt[d].stage \in {"lock", "store", "add", "push"} =>
                 attempt[d].by = "callback"
           /\ attempt[d].stage \in {"store", "add"} => attempt[d].report \in Report
           /\ attempt[d].stage \in {"ring", "generate", "alloc"} =>
                 attempt[d] \in [by : {"callback", "set", "free"},
                                 stage : {"ring", "generate", "alloc"},
                                 runner : Runner, f : Fraction]
  <1>1. attempt[d] \in Attempt
    BY DEF TypesKnown
  <1> QED
    BY <1>1 DEF Attempt

LEMMA ReportTypes ==
    ASSUME TypesKnown, NEW d \in Device, NEW rate \in Measured(d)
    PROVE  ReportOf(d, rate) \in Report
  <1>1. rate \in Rates /\ prev[d] \in Rates
    BY RatesAssumption DEF Measured, TypesKnown
  <1>2. rate - prev[d] \in Int
    <2>1. rate \in Nat /\ prev[d] \in Nat
      BY <1>1, RatesAssumption
    <2> QED
      BY <2>1
  <1> QED
    BY <1>1, <1>2 DEF ReportOf, Report

(* A step that replaces what is in one device's attempt by another stage   *)
(* of the same thread, or by nothing, without taking the ring's mutex.     *)
LEMMA SameThread ==
    ASSUME WaitInv, NEW d \in Device, attempt[d] # None,
           NEW a, attempt' = [attempt EXCEPT ![d] = a],
           a # None => a.by = attempt[d].by,
           a # None /\ a.stage \in {"generate", "alloc"} => AllocatorOf(d),
           UNCHANGED <<setting, freeing>>
    PROVE  TriesKnown' /\ RingKnown'
  <1>1. \A e \in Device : attempt'[e] = IF e = d THEN a ELSE attempt[e]
    BY DEF WaitInv, TypesKnown
  <1>2. \A e \in Device : \A who \in {"set", "free"} : By(e, who)' => By(e, who)
    BY <1>1 DEF By
  <1>3. \A e \in Device : /\ AllocatorOf(e)' => AllocatorOf(e)
                          /\ AllocatorOf(e)' /\ By(e, "free") => By(e, "free")'
    BY <1>1 DEF AllocatorOf, At, By
  <1> QED
    BY <1>2, <1>3 DEF WaitInv, TriesKnown, RingKnown

(* A step that leaves the attempts alone, and in which setting and freeing *)
(* change only while their threads are in none.                            *)
LEMMA OtherThread ==
    ASSUME WaitInv, UNCHANGED attempt,
           setting' = setting \/ TriesOf("set") = {} \/ setting.op # "reset",
           freeing' = freeing \/ (freeing # 0 /\ TriesOf("free") = {})
               \/ (freeing = 0 /\ \A d \in Device : ~AllocatorOf(d))
    PROVE  TriesKnown' /\ RingKnown'
  <1>1. \A d \in Device : /\ \A who : By(d, who)' <=> By(d, who)
                          /\ AllocatorOf(d)' <=> AllocatorOf(d)
    BY DEF By, AllocatorOf, At
  <1>2. \A d \in Device : By(d, "set") => setting'.op = "reset"
    BY DEF WaitInv, TriesKnown, TriesOf, By
  <1>3. \A d \in Device : By(d, "free") => freeing' # 0
    BY DEF WaitInv, TriesKnown, TriesOf, By
  <1>4. \A d \in Device : AllocatorOf(d) /\ freeing' # 0 => By(d, "free")
    BY DEF WaitInv, RingKnown
  <1> QED
    BY <1>1, <1>2, <1>3, <1>4 DEF WaitInv, TriesKnown, RingKnown

(* A thread that was in no try_start enters one.                           *)
LEMMA TryingTypes ==
    ASSUME TypesKnown, NEW d \in Device, NEW who \in {"callback", "set", "free"}
    PROVE  /\ Trying(d, who) \in Attempt \cup {None}
           /\ Trying(d, who) # None => /\ Trying(d, who).by = who
                                       /\ Trying(d, who).stage = "ring"
  BY DEF TypesKnown, Trying, Attempt, Runner

LEMMA NextRunnerTypes ==
    ASSUME TypesKnown, NEW d \in Device, attempt[d] # None,
           attempt[d].stage \in {"ring", "generate", "alloc"}
    PROVE  /\ NextRunner(d) \in Attempt \cup {None}
           /\ NextRunner(d) # None => /\ NextRunner(d).by = attempt[d].by
                                      /\ NextRunner(d).stage = "ring"
  <1>1. attempt[d] \in [by : {"callback", "set", "free"},
                        stage : {"ring", "generate", "alloc"},
                        runner : Runner, f : Fraction]
    BY AttemptKinds
  <1> DEFINE a == [by |-> attempt[d].by, stage |-> "ring", runner |-> 2, f |-> attempt[d].f]
  <1>2. a \in Attempt
    BY <1>1 DEF Attempt, Runner
  <1>3. NextRunner(d) = a \/ NextRunner(d) = None
    BY DEF NextRunner
  <1> QED
    BY <1>2, <1>3

-----------------------------------------------------------------------------
LEMMA WaitKernelsAndCallbacks ==
    ASSUME WaitInv, NEW d \in Device,
           \/ \E r \in Runner : KernelEnds(d, r)
           \/ Callback(d) \/ CallbackReads(d) \/ CallbackStores(d) \/ CallbackAdds(d)
           \/ CallbackPushes(d)
    PROVE  WaitInv'
  <1> USE DEF WaitInv
  <1>1. ASSUME NEW r \in Runner, KernelEnds(d, r) PROVE WaitInv'
    BY <1>1, OtherThread DEF KernelEnds, TypesKnown, rates, rest
  <1>2. CASE Callback(d)
    <2> DEFINE a == [by |-> "callback", stage |-> "lock"]
    <2>1. attempt' = [attempt EXCEPT ![d] = a] /\ a \in Attempt
      BY <1>2 DEF Callback, Attempt
    <2>2. UNCHANGED <<mode, prev, total, fraction, coord, setting, freeing>>
      BY <1>2 DEF Callback, rest
    <2>3. TypesKnown'
      BY <2>1, <2>2 DEF TypesKnown
    <2>4. \A e \in Device : attempt'[e] = IF e = d THEN a ELSE attempt[e]
      BY <2>1 DEF TypesKnown
    <2>5. a # None
      BY <2>1, NoneAssumption
    <2>6. \A e \in Device : \A who \in {"set", "free"} : By(e, who)' <=> By(e, who) /\ e # d
      BY <2>4 DEF By
    <2>7. \A e \in Device : AllocatorOf(e)' <=> AllocatorOf(e) /\ e # d
      BY <2>4 DEF AllocatorOf, At
    <2> QED
      BY <2>2, <2>3, <2>6, <2>7 DEF TriesKnown, RingKnown
  <1>3. CASE CallbackReads(d)
    <2>1. PICK rate \in Measured(d) :
             attempt' = [attempt EXCEPT ![d] =
                 [by |-> "callback", stage |-> "store", report |-> ReportOf(d, rate)]]
      BY <1>3 DEF CallbackReads
    <2> DEFINE a == [by |-> "callback", stage |-> "store", report |-> ReportOf(d, rate)]
    <2>2. UNCHANGED <<mode, prev, total, fraction, coord, setting, freeing>>
      BY <1>3 DEF CallbackReads, rates, ring, rest
    <2>3. a \in Attempt
      BY ReportTypes DEF Attempt
    <2>4. attempt[d] # None /\ attempt[d].by = "callback"
      BY <1>3, AttemptKinds DEF CallbackReads, At
    <2>5. TypesKnown'
      BY <2>1, <2>2, <2>3 DEF TypesKnown
    <2> QED
      BY <2>1, <2>2, <2>4, <2>5, SameThread
  <1>4. CASE CallbackStores(d)
    <2> DEFINE a == [attempt[d] EXCEPT !.stage = "add"]
    <2>1. attempt[d] # None /\ attempt[d].stage = "store"
      BY <1>4 DEF CallbackStores, At
    <2>2. attempt[d] \in [by : {"callback"}, stage : {"store", "add"}, report : Report]
      BY <2>1, AttemptKinds DEF Attempt
    <2>3. a \in Attempt /\ a.by = attempt[d].by /\ a.stage = "add"
      BY <2>2 DEF Attempt
    <2>4. attempt' = [attempt EXCEPT ![d] = a] /\ prev' \in [Device -> Rates]
      BY <1>4, <2>2 DEF CallbackStores, TypesKnown, Report
    <2>5. UNCHANGED <<mode, total, fraction, coord, setting, freeing>>
      BY <1>4 DEF CallbackStores, ring, rest
    <2>6. TypesKnown'
      BY <2>3, <2>4, <2>5 DEF TypesKnown
    <2> QED
      BY <2>1, <2>3, <2>4, <2>5, <2>6, SameThread
  <1>5. CASE CallbackAdds(d)
    <2> DEFINE a == [by |-> "callback", stage |-> "push"]
    <2>1. attempt[d] # None /\ attempt[d].stage = "add"
      BY <1>5 DEF CallbackAdds, At
    <2>2. attempt[d].by = "callback" /\ attempt[d].report.delta \in Int
      BY <2>1, AttemptKinds DEF Report
    <2>3. attempt' = [attempt EXCEPT ![d] = a] /\ total' \in Int /\ a \in Attempt
      BY <1>5, <2>2 DEF CallbackAdds, TypesKnown, Attempt
    <2>4. UNCHANGED <<mode, prev, fraction, coord, setting, freeing>>
      BY <1>5 DEF CallbackAdds, ring, rest
    <2>5. TypesKnown'
      BY <2>3, <2>4 DEF TypesKnown
    <2> QED
      BY <2>1, <2>2, <2>3, <2>4, <2>5, SameThread
  <1>6. CASE CallbackPushes(d)
    <2>1. attempt[d] # None /\ attempt[d].stage = "push"
      BY <1>6 DEF CallbackPushes, At
    <2>2. attempt[d].by = "callback"
      BY <2>1, AttemptKinds
    <2>3. attempt' = [attempt EXCEPT ![d] = Trying(d, "callback")]
      BY <1>6 DEF CallbackPushes
    <2>4. UNCHANGED <<mode, prev, total, fraction, coord, setting, freeing>>
      BY <1>6 DEF CallbackPushes, rates, ring, rest
    <2>5. TypesKnown'
      BY <2>3, <2>4, TryingTypes DEF TypesKnown
    <2> QED
      BY <2>1, <2>2, <2>3, <2>4, <2>5, SameThread, TryingTypes
  <1> QED
    BY <1>1, <1>2, <1>3, <1>4, <1>5, <1>6

LEMMA WaitTry ==
    ASSUME WaitInv, NEW d \in Device, Try(d)
    PROVE  WaitInv'
  <1> USE DEF WaitInv
  <1>1. UNCHANGED <<mode, prev, total, fraction, coord, setting, freeing>>
    BY DEF Try, TryAborts, TrySkips, TakeAllocator, GenerateJob, Allocate, rates, ring, rest
  <1>2. attempt[d] # None /\ attempt[d].stage \in {"ring", "generate", "alloc"}
    BY DEF Try, TryAborts, TrySkips, TakeAllocator, GenerateJob, Allocate, At, Idling
  <1>3. attempt[d] \in [by : {"callback", "set", "free"},
                        stage : {"ring", "generate", "alloc"},
                        runner : Runner, f : Fraction]
    BY <1>2, AttemptKinds
  <1>4. CASE TryAborts(d)
    BY <1>1, <1>4, OtherThread DEF TryAborts, TypesKnown
  <1>5. CASE TrySkips(d) \/ Allocate(d)
    <2>1. attempt' = [attempt EXCEPT ![d] = NextRunner(d)]
      BY <1>5 DEF TrySkips, Allocate
    <2>2. TypesKnown'
      BY <1>1, <1>2, <2>1, NextRunnerTypes DEF TypesKnown
    <2> QED
      BY <1>1, <1>2, <2>1, <2>2, NextRunnerTypes, SameThread
  <1>6. CASE TakeAllocator(d)
    <2>1. PICK stage \in {"generate", "alloc"} :
             attempt' = [attempt EXCEPT ![d].stage = stage]
      BY <1>6 DEF TakeAllocator
    <2> DEFINE a == [attempt[d] EXCEPT !.stage = stage]
    <2>2. attempt' = [attempt EXCEPT ![d] = a]
      BY <2>1
    <2>3. a \in Attempt /\ a.by = attempt[d].by /\ a # None
      BY <1>3, NoneAssumption DEF Attempt
    <2>4. TypesKnown'
      BY <1>1, <2>2, <2>3 DEF TypesKnown
    <2>5. \A e \in Device : attempt'[e] = IF e = d THEN a ELSE attempt[e]
      BY <2>2 DEF TypesKnown
    <2>6. /\ \A e \in Device : ~AllocatorOf(e)
          /\ freeing # 0 => attempt[d].by = "free"
      BY <1>6 DEF TakeAllocator, CanLockRing
    <2>7. \A e \in Device : \A who : By(e, who)' <=> By(e, who)
      BY <1>2, <2>3, <2>5 DEF By
    <2>8. \A e \in Device : AllocatorOf(e)' => e = d
      BY <2>5, <2>6 DEF AllocatorOf, At
    <2>9. freeing # 0 => By(d, "free")
      BY <1>2, <2>6 DEF By
    <2>10. TriesKnown'
      BY <1>1, <2>7 DEF TriesKnown
    <2>11. RingKnown'
      BY <1>1, <2>7, <2>8, <2>9 DEF RingKnown
    <2> QED
      BY <2>4, <2>10, <2>11
  <1>7. CASE GenerateJob(d)
    <2> DEFINE a == [attempt[d] EXCEPT !.stage = "alloc"]
    <2>1. attempt' = [attempt EXCEPT ![d] = a] /\ AllocatorOf(d)
      BY <1>7 DEF GenerateJob, AllocatorOf
    <2>2. a \in Attempt /\ a.by = attempt[d].by
      BY <1>3 DEF Attempt
    <2>3. TypesKnown'
      BY <1>1, <2>1, <2>2 DEF TypesKnown
    <2> HIDE DEF a
    <2> QED
      BY <1>1, <1>2, <2>1, <2>2, <2>3, SameThread
  <1> QED
    BY <1>4, <1>5, <1>6, <1>7 DEF Try

(* What coord and setting can be.                                          *)
LEMMA CoordKinds ==
    ASSUME TypesKnown
    PROVE  /\ coord.op \in {"idle", "print", "printed", "stop"}
           /\ coord.op = "print" =>
                coord \in [op : {"print"}, at : Device \cup {Devices + 1},
                           report : Report \cup {None}]
           /\ coord.op = "stop" =>
                coord \in [op : {"stop"}, at : Device \cup {Devices + 1}]
  BY DEF TypesKnown, Coord

LEMMA SettingKinds ==
    ASSUME TypesKnown
    PROVE  /\ setting.op \in {"idle", "generator", "reset", "start"}
           /\ setting.op \in {"reset", "start"} =>
                setting \in [op : {"reset", "start"}, at : Device \cup {Devices + 1}]
  BY DEF TypesKnown, Setting

LEMMA NextDevice ==
    \A d \in Device : d + 1 \in Device \cup {Devices + 1}
  BY RatesAssumption DEF Device

LEMMA CoordValues ==
    ASSUME TypesKnown, Coordinate
    PROVE  /\ prev' \in [Device -> Rates] /\ total' \in Int
           /\ fraction' \in Fraction /\ coord' \in Coord
  <1>1. CASE BeginPrint
    <2>1. 1 \in Device \cup {Devices + 1}
      BY RatesAssumption DEF Device
    <2> QED
      BY <1>1, <2>1 DEF BeginPrint, TypesKnown, Coord, rates, rest
  <1>2. CASE PrintReads
    <2>1. PICK rate \in Measured(coord.at) :
             coord' = [coord EXCEPT !.report = ReportOf(coord.at, rate)]
      BY <1>2 DEF PrintReads
    <2>2. ReportOf(coord.at, rate) \in Report
      BY <1>2, ReportTypes DEF PrintReads
    <2>3. coord \in [op : {"print"}, at : Device \cup {Devices + 1},
                     report : Report \cup {None}]
      BY <1>2, CoordKinds DEF PrintReads
    <2>4. coord' \in Coord
      BY <2>1, <2>2, <2>3 DEF Coord
    <2> QED
      BY <1>2, <2>4 DEF PrintReads, TypesKnown, rates, rest
  <1>3. CASE PrintStores
    <2>1. coord \in [op : {"print"}, at : Device, report : Report]
      BY <1>3, CoordKinds DEF PrintStores
    <2>2. coord.report.rate \in Rates /\ coord.report.delta \in Int
      BY <2>1 DEF Report
    <2>3. coord' = [[coord EXCEPT !.at = @ + 1] EXCEPT !.report = None]
      BY <1>3 DEF PrintStores
    <2>4. coord.at + 1 \in Device \cup {Devices + 1}
      BY <2>1, NextDevice
    <2>5. coord' \in Coord
      BY <2>1, <2>3, <2>4 DEF Coord
    <2> QED
      BY <1>3, <2>2, <2>5 DEF PrintStores, TypesKnown, rest
  <1>4. CASE Stop
    <2>1. 1 \in Device \cup {Devices + 1}
      BY RatesAssumption DEF Device
    <2> QED
      BY <1>4, <2>1 DEF Stop, TypesKnown, Coord, rates, rest
  <1>5. CASE StopDevice
    <2>1. coord \in [op : {"stop"}, at : Device \cup {Devices + 1}]
      BY <1>5, CoordKinds DEF StopDevice
    <2>2. coord.at \in Device /\ coord.at + 1 \in Device \cup {Devices + 1}
      BY <1>5, NextDevice DEF StopDevice
    <2>3. coord' \in Coord
      BY <1>5, <2>1, <2>2 DEF StopDevice, Coord
    <2>4. prev' \in [Device -> Rates]
      BY <1>5, RatesAssumption DEF StopDevice, TypesKnown
    <2>5. prev[coord.at] \in Int
      <3>1. prev[coord.at] \in Rates
        BY <2>2 DEF TypesKnown
      <3>2. prev[coord.at] \in Nat
        BY <3>1, RatesAssumption
      <3> QED
        BY <3>2
    <2>6. total' \in Int
      BY <1>5, <2>5 DEF StopDevice, TypesKnown
    <2> QED
      BY <1>5, <2>3, <2>4, <2>6 DEF StopDevice, TypesKnown, rest
  <1>6. CASE HashratesReturns \/ EndPrint \/ StopReturns
    BY <1>6 DEF HashratesReturns, EndPrint, StopReturns, TypesKnown, Coord, rates, rest
  <1>7. CASE UpdateFraction
    BY <1>7 DEF UpdateFraction, TypesKnown, Fraction, rates
  <1> QED
    BY <1>1, <1>2, <1>3, <1>4, <1>5, <1>6, <1>7 DEF Coordinate

(* The coordinator's own steps leave the attempts alone; of those of       *)
(* set_work only Start touches one.                                        *)
LEMMA CoordTypes ==
    ASSUME TypesKnown, Coordinate
    PROVE  TypesKnown' /\ UNCHANGED <<mode, setting, attempt, freeing>>
  <1>1. UNCHANGED <<mode, setting, attempt, freeing>>
    BY DEF Coordinate, BeginPrint, PrintReads, PrintStores, HashratesReturns, EndPrint,
           Stop, StopDevice, StopReturns, UpdateFraction, ring, rest
  <1>2. mode = "node" => coord'.op = "idle" \/ setting.op = "idle"
    BY DEF TypesKnown, Coordinate, BeginPrint, PrintReads, PrintStores, HashratesReturns,
           EndPrint, Stop, StopDevice, StopReturns, UpdateFraction, Idle
  <1> QED
    BY <1>1, <1>2, CoordValues DEF TypesKnown

LEMMA SettingTypes ==
    ASSUME TypesKnown, SetsWork
    PROVE  /\ UNCHANGED <<mode, prev, total, fraction, coord, freeing>>
           /\ setting' \in Setting
           /\ setting'.op = "start" => setting'.at \in Device
           /\ mode = "node" => coord.op = "idle" \/ setting'.op = "idle"
  <1>1. UNCHANGED <<mode, prev, total, fraction, coord, freeing>>
    BY DEF SetsWork, SetWork, NewGenerator, Activate, Start, SetWorkReturns, rates, ring, rest
  <1>2. mode = "node" => coord.op = "idle"
    BY DEF SetsWork, SetWork, NewGenerator, Activate, Start, SetWorkReturns, Idle, TypesKnown
  <1>3. setting' \in Setting /\ (setting'.op = "start" => setting'.at \in Device)
    <2>1. CASE SetWork \/ SetWorkReturns
      BY <2>1 DEF SetWork, SetWorkReturns, Setting
    <2>2. CASE NewGenerator
      <3>1. 1 \in Device \cup {Devices + 1}
        BY RatesAssumption DEF Device
      <3> QED
        BY <2>2, <3>1 DEF NewGenerator, Setting
    <2>3. CASE Activate
      <3>1. setting \in [op : {"reset", "start"}, at : Device \cup {Devices + 1}]
        BY <2>3, SettingKinds DEF Activate
      <3> QED
        BY <2>3, <3>1 DEF Activate, Setting
    <2>4. CASE Start
      <3>1. setting.at + 1 \in Device \cup {Devices + 1}
        BY <2>4, NextDevice DEF Start, TypesKnown
      <3> QED
        BY <2>4, <3>1 DEF Start, Setting
    <2> QED
      BY <2>1, <2>2, <2>3, <2>4 DEF SetsWork
  <1> QED
    BY <1>1, <1>2, <1>3

(* A thread that is in no try_start enters one, in set_work or in          *)
(* allocation_possible.                                                    *)
LEMMA EntersTry ==
    ASSUME WaitInv, NEW d \in Device, NEW who \in {"set", "free"},
           attempt[d] = None, TriesOf(who) = {},
           attempt' = [attempt EXCEPT ![d] = Trying(d, who)],
           IF who = "set" THEN setting'.op = "reset" /\ freeing' = freeing
                          ELSE setting' = setting /\ freeing # 0 /\ freeing' # 0
    PROVE  TriesKnown' /\ RingKnown'
  <1>1. \A e \in Device : attempt'[e] = IF e = d THEN Trying(d, who) ELSE attempt[e]
    BY DEF WaitInv, TypesKnown
  <1>2. Trying(d, who) # None => /\ Trying(d, who).by = who
                                 /\ Trying(d, who).stage = "ring"
    BY TryingTypes DEF WaitInv
  <1>3. \A e \in Device : ~By(e, who)
    BY DEF TriesOf, By
  <1>4. /\ \A e \in Device : By(e, who)' => e = d
        /\ \A e \in Device : \A w \in {"set", "free"} \ {who} : By(e, w)' <=> By(e, w)
    BY <1>1, <1>2, <1>3 DEF By
  <1>5. \A e \in Device : AllocatorOf(e)' <=> AllocatorOf(e)
    BY <1>1, <1>2 DEF AllocatorOf, At
  <1>6. TriesKnown'
    <2>1. CASE who = "set"
      BY <1>4, <2>1 DEF WaitInv, TriesKnown
    <2>2. CASE who = "free"
      BY <1>4, <2>2 DEF WaitInv, TriesKnown
    <2> QED
      BY <2>1, <2>2
  <1>7. \A e \in Device : By(e, "free") => By(e, "free")'
    BY <1>1 DEF By
  <1>8. RingKnown'
    BY <1>5, <1>7 DEF WaitInv, RingKnown
  <1> QED
    BY <1>6, <1>8

LEMMA WaitNext == WaitInv /\ [Next]_vars => WaitInv'
  <1> SUFFICES ASSUME WaitInv, [Next]_vars
               PROVE  WaitInv'
    OBVIOUS
  <1>1. TypesKnown
    BY DEF WaitInv
  <1>2. ASSUME NEW d \in Device, \E r \in Runner : KernelEnds(d, r)
        PROVE  WaitInv'
    BY <1>2, WaitKernelsAndCallbacks
  <1>3. ASSUME NEW d \in Device,
               \/ Callback(d) \/ CallbackReads(d) \/ CallbackStores(d) \/ CallbackAdds(d)
               \/ CallbackPushes(d)
        PROVE  WaitInv'
    BY <1>3, WaitKernelsAndCallbacks
  <1>4. ASSUME NEW d \in Device, Try(d)
        PROVE  WaitInv'
    BY <1>4, WaitTry
  <1>5. CASE Coordinate
    BY <1>1, <1>5, CoordTypes, OtherThread DEF WaitInv
  <1>6. CASE SetsWork
    <2>1. UNCHANGED <<mode, prev, total, fraction, coord, freeing>>
      BY <1>1, <1>6, SettingTypes
    <2>2. CASE Start
      <3>1. attempt[setting.at] = None /\ setting.at \in Device /\ TriesOf("set") = {}
        BY <1>1, <2>2 DEF Start, DeviceHeld, TypesKnown, WaitInv, TriesKnown, By, TriesOf
      <3>2. /\ attempt' = [attempt EXCEPT ![setting.at] = Trying(setting.at, "set")]
            /\ setting'.op = "reset"
        BY <2>2 DEF Start
      <3>3. TypesKnown'
        BY <1>1, <1>6, <2>1, <3>1, <3>2, SettingTypes, TryingTypes DEF TypesKnown
      <3>4. TriesKnown' /\ RingKnown'
        BY <2>1, <3>1, <3>2, EntersTry
      <3> QED
        BY <3>3, <3>4 DEF WaitInv
    <2>3. CASE ~Start
      <3>1. attempt' = attempt
        BY <1>6, <2>3 DEF SetsWork, SetWork, NewGenerator, Activate, SetWorkReturns
      <3>2. TypesKnown'
        BY <1>1, <1>6, <2>1, <3>1, SettingTypes DEF TypesKnown
      <3>3. TriesOf("set") = {} \/ setting.op # "reset"
        BY <1>6, <2>3 DEF SetsWork, SetWork, NewGenerator, Activate, SetWorkReturns
      <3> QED
        BY <2>1, <3>1, <3>2, <3>3, OtherThread DEF WaitInv
    <2> QED
      BY <2>2, <2>3
  <1>7. CASE DropBuffer
    <2>1. /\ UNCHANGED <<mode, prev, total, fraction, coord, setting, attempt>>
          /\ freeing = 0 /\ freeing' \in {0, 1}
          /\ \A d \in Device : ~AllocatorOf(d)
      BY <1>7 DEF DropBuffer, rates, rest
    <2>2. TypesKnown'
      BY <1>1, <2>1, RatesAssumption DEF TypesKnown
    <2> QED
      BY <2>1, <2>2, OtherThread DEF WaitInv
  <1>8. CASE AllocationPossible
    <2>1. /\ UNCHANGED <<mode, prev, total, fraction, coord, setting>>
          /\ freeing \in Device /\ TriesOf("free") = {} /\ attempt[freeing] = None
          /\ attempt' = [attempt EXCEPT ![freeing] = Trying(freeing, "free")]
          /\ freeing' = freeing + 1
      BY <1>8 DEF AllocationPossible, rates, rest, DeviceHeld
    <2>2. freeing # 0 /\ freeing' # 0 /\ freeing' \in 0 .. Devices + 1
      BY <2>1, RatesAssumption DEF Device
    <2>3. TypesKnown'
      BY <1>1, <2>1, <2>2, TryingTypes DEF TypesKnown
    <2>4. TriesKnown' /\ RingKnown'
      BY <2>1, <2>2, EntersTry
    <2> QED
      BY <2>3, <2>4 DEF WaitInv
  <1>9. CASE FreeReturns
    <2>1. /\ UNCHANGED <<mode, prev, total, fraction, coord, setting, attempt>>
          /\ freeing # 0 /\ freeing' = 0 /\ TriesOf("free") = {}
      BY <1>9, RatesAssumption DEF FreeReturns, rates, rest
    <2>2. TypesKnown'
      BY <1>1, <2>1, RatesAssumption DEF TypesKnown
    <2> QED
      BY <2>1, <2>2, OtherThread DEF WaitInv
  <1>10. CASE UNCHANGED vars
    <2>1. UNCHANGED <<mode, prev, total, fraction, coord, setting, attempt, freeing>>
      BY <1>10 DEF vars, rates, ring, rest
    <2> QED
      BY <1>1, <2>1, OtherThread DEF WaitInv, TypesKnown
  <1> QED
    BY <1>2, <1>3, <1>4, <1>5, <1>6, <1>7, <1>8, <1>9, <1>10 DEF Next

LEMMA WaitHolds == Spec => []WaitInv
  BY WaitInit, WaitNext, PTL DEF Spec

-----------------------------------------------------------------------------
(* A thread is in one try_start at a time.                                 *)
LEMMA Threads1 ==
    ASSUME WaitInv, NEW d \in Device, attempt[d] # None
    PROVE  /\ ThreadOf(d) = TheSetter <=> By(d, "set")
           /\ ThreadOf(d) = TheFree <=> By(d, "free")
           /\ \A e \in Device : attempt[e] # None /\ ThreadOf(e) = ThreadOf(d) => e = d
  <1>1. \A e \in Device : attempt[e] # None =>
           \/ By(e, "set") /\ ThreadOf(e) = TheSetter
           \/ By(e, "free") /\ ThreadOf(e) = TheFree
           \/ ~By(e, "set") /\ ~By(e, "free") /\ ThreadOf(e) = <<"callback", e>>
    BY DEF By, ThreadOf
  <1>2. /\ TheSetter # TheFree
        /\ \A e \in Device : <<"callback", e>> # TheSetter /\ <<"callback", e>> # TheFree
    BY DEF TheSetter, TheCoord, TheNetwork, TheFree
  <1>3. \A e, f \in Device : <<"callback", e>> = <<"callback", f>> => e = f
    OBVIOUS
  <1> HIDE DEF TheSetter, TheFree
  <1>4. ThreadOf(d) = TheSetter <=> By(d, "set")
    <2>1. CASE attempt[d].by = "set"
      BY <2>1 DEF By, ThreadOf
    <2>2. CASE attempt[d].by # "set"
      BY <2>2, <1>2 DEF By, ThreadOf
    <2> QED
      BY <2>1, <2>2
  <1>5. ThreadOf(d) = TheFree <=> By(d, "free")
    <2>1. CASE attempt[d].by = "free"
      BY <2>1 DEF By, ThreadOf
    <2>2. CASE attempt[d].by # "free"
      BY <2>2, <1>2 DEF By, ThreadOf
    <2> QED
      BY <2>1, <2>2
  <1>6. ASSUME NEW e \in Device, attempt[e] # None, ThreadOf(e) = ThreadOf(d)
        PROVE  e = d
    <2>1. \A who \in {"set", "free"} : By(d, who) /\ By(e, who) => d = e
      BY DEF WaitInv, TriesKnown
    <2> QED
      BY <1>1, <1>2, <1>3, <1>6, <2>1
  <1> QED
    BY <1>4, <1>5, <1>6

Waits == WaitsOfSetWork \cup WaitsForHasher \cup WaitsForEvents \cup WaitsForRing

(* Whoever waits, and for whom.                                            *)
LEMMA WaitKinds ==
    ASSUME NEW t, NEW u, <<t, u>> \in Waits
    PROVE  \/ /\ t = TheSetter /\ setting.op \in {"reset", "start"} /\ TriesOf("set") = {}
              /\ \E d \in Device : attempt[d] # None /\ u = ThreadOf(d)
           \/ /\ HasherHeld \/ EventsHeld
              /\ u = TheCoord
              /\ \E d \in Device : attempt[d] # None /\ t = ThreadOf(d)
           \/ HasherHeld /\ setting.op = "generator" /\ t = TheSetter /\ u = TheCoord
           \/ \E d, e \in Device : Idling(d) /\ AllocatorOf(e)
                                     /\ t = ThreadOf(d) /\ u = ThreadOf(e)
           \/ \E d \in Device : /\ Idling(d) /\ freeing # 0 /\ attempt[d].by # "free"
                                /\ t = ThreadOf(d) /\ u = TheFree
  <1> HIDE DEF TheCoord, TheSetter, TheFree
  <1>1. CASE <<t, u>> \in WaitsOfSetWork
    BY <1>1 DEF WaitsOfSetWork, DeviceHeld
  <1>2. CASE <<t, u>> \in WaitsForHasher
    BY <1>2 DEF WaitsForHasher, At
  <1>3. CASE <<t, u>> \in WaitsForEvents
    BY <1>3 DEF WaitsForEvents, At
  <1>4. CASE <<t, u>> \in WaitsForRing
    BY <1>4 DEF WaitsForRing
  <1> QED
    BY <1>1, <1>2, <1>3, <1>4 DEF Waits

(* In a set of threads in which each waits for another one there is, in    *)
(* this order, no coordinator that holds the hasher's mutex or st.m, since *)
(* it sets no work meanwhile, nobody who holds the Allocator, no free      *)
(* under way, and so nobody.                                               *)
LEMMA NobodyInACircle ==
    ASSUME WaitInv, NEW T, \A t \in T : \E u \in T : <<t, u>> \in Waits
    PROVE  T = {}
  <1>1. \A d \in Device : /\ Idling(d) => attempt[d] # None /\ ~AllocatorOf(d)
                          /\ AllocatorOf(d) => attempt[d] # None
    BY DEF Idling, AllocatorOf, At
  <1>2. /\ TheCoord # TheFree /\ TheSetter # TheFree
        /\ TheSetter = TheCoord => mode # "pool"
        /\ \A d \in Device : <<"callback", d>> # TheCoord
    BY DEF TheCoord, TheSetter, TheNetwork, TheFree
  <1>3. (HasherHeld \/ EventsHeld) /\ TheSetter = TheCoord => setting.op = "idle"
    BY <1>2 DEF HasherHeld, EventsHeld, WaitInv, TypesKnown
  <1> HIDE DEF TheCoord, TheSetter, TheFree
  <1>4. \A d \in Device : attempt[d] # None /\ ThreadOf(d) = TheSetter =>
           By(d, "set") /\ setting.op = "reset" /\ TriesOf("set") # {}
    BY Threads1 DEF WaitInv, TriesKnown, TriesOf, By
  <1>5. HasherHeld \/ EventsHeld => TheCoord \notin T
    <2> SUFFICES ASSUME HasherHeld \/ EventsHeld, TheCoord \in T PROVE FALSE
      OBVIOUS
    <2>1. PICK u \in T : <<TheCoord, u>> \in Waits
      OBVIOUS
    <2>2. CASE TheCoord = TheSetter /\ setting.op # "idle"
      BY <1>3, <2>2
    <2>3. ASSUME NEW d \in Device, attempt[d] # None, TheCoord = ThreadOf(d)
          PROVE  FALSE
      <3>1. TheCoord = TheSetter
        BY <1>2, <2>3 DEF ThreadOf
      <3>2. setting.op = "reset"
        BY <1>4, <2>3, <3>1
      <3> QED
        BY <1>3, <3>1, <3>2
    <2> HIDE DEF ThreadOf
    <2> QED
      BY <1>1, <2>1, <2>2, <2>3, WaitKinds
  <1> HIDE DEF ThreadOf
  <1>6. \A e \in Device : AllocatorOf(e) => ThreadOf(e) \notin T
    <2> SUFFICES ASSUME NEW e \in Device, AllocatorOf(e), ThreadOf(e) \in T PROVE FALSE
      OBVIOUS
    <2>1. PICK u \in T : <<ThreadOf(e), u>> \in Waits
      OBVIOUS
    <2>2. \E d \in Device : Idling(d) /\ ThreadOf(d) = ThreadOf(e)
      BY <1>1, <1>4, <1>5, <2>1, WaitKinds
    <2> QED
      BY <1>1, <2>2, Threads1
  <1>7. freeing # 0 => TheFree \notin T
    <2> SUFFICES ASSUME freeing # 0, TheFree \in T PROVE FALSE
      OBVIOUS
    <2>1. PICK u \in T : <<TheFree, u>> \in Waits
      OBVIOUS
    <2>2. PICK d \in Device : /\ attempt[d] # None /\ attempt[d].by # "free"
                              /\ TheFree = ThreadOf(d)
      BY <1>1, <1>2, <1>5, <1>6, <2>1, WaitKinds
    <2> QED
      BY <2>2, Threads1 DEF By
  <1> SUFFICES ASSUME NEW t \in T PROVE FALSE
    OBVIOUS
  <1>8. PICK u \in T : <<t, u>> \in Waits
    OBVIOUS
  <1>9. /\ TriesOf("set") = {}
        /\ \E d \in Device : attempt[d] # None /\ u = ThreadOf(d)
    BY <1>5, <1>6, <1>7, <1>8, WaitKinds
  <1>10. PICK v \in T : <<u, v>> \in Waits
    OBVIOUS
  <1>11. u = TheSetter
    BY <1>5, <1>6, <1>7, <1>10, WaitKinds
  <1> QED
    BY <1>4, <1>9, <1>11

(* Callbacks, prints under st.m, calls of set_work - on the coordinator's  *)
(* thread for a node, beside it on the network's for a pool - and          *)
(* try_start cannot deadlock, for any number of devices: whoever waits for *)
(* the hasher's mutex, for the ring's, for st.m, or in set_work for a      *)
(* device's, waits for a thread that gets on.  Only stop_mining and        *)
(* allocation_possible, which wait for a device's mutex while they hold    *)
(* the hasher's or the ring's, are not counted.                            *)
THEOREM CircularWaitsKnownHolds == Spec => []CircularWaitsKnown
  <1>1. WaitInv => CircularWaitsKnown
    BY NobodyInACircle DEF CircularWaitsKnown, Circular, Waits
  <1> QED
    BY WaitHolds, <1>1, PTL

-----------------------------------------------------------------------------
(* Sums over the devices.                                                  *)
LEMMA DevicesFinite == IsFiniteSet(Device)
  BY RatesAssumption, FS_Interval DEF Device

LEMMA SumOfDevices ==
    ASSUME NEW f \in [Device -> Int]
    PROVE  SumFunction(f) \in Int
  <1>1. DOMAIN f = Device /\ \A d \in Device : f[d] \in Int
    OBVIOUS
  <1> QED
    BY <1>1, DevicesFinite, SumType DEF SumFunction

LEMMA SumOneChanged ==
    ASSUME NEW f \in [Device -> Int], NEW g \in [Device -> Int], NEW d \in Device,
           \A e \in Device \ {d} : g[e] = f[e]
    PROVE  SumFunction(g) = SumFunction(f) - f[d] + g[d]
  <1>1. /\ DOMAIN f = Device /\ DOMAIN g = Device
        /\ \A e \in Device : f[e] \in Int /\ g[e] \in Int
    OBVIOUS
  <1>2. SumFunctionOnSet(g, Device) = SumFunctionOnSet(f, Device) - f[d] + g[d]
    BY <1>1, DevicesFinite, SumChange
  <1> QED
    BY <1>1, <1>2 DEF SumFunction

LEMMA SumsEqual ==
    ASSUME NEW f \in [Device -> Int], NEW g \in [Device -> Int],
           \A d \in Device : g[d] = f[d]
    PROVE  g = f
  OBVIOUS

LEMMA SumOfZeros ==
    ASSUME NEW f, DOMAIN f = Device, \A d \in Device : f[d] = 0
    PROVE  SumFunction(f) = 0
  BY DevicesFinite, SumZero DEF SumFunction

-----------------------------------------------------------------------------
(* The differences that callbacks carry to the hasher.                     *)
Pending == [d \in Device |-> IF At(d, "add") THEN attempt[d].report.delta ELSE 0]

(* Between reading prevHashrate and writing it, hashrate() holds the       *)
(* difference to what is stored, and it does so once per device.           *)
StoresKnown ==
    \A d \in Device :
        At(d, "store") => attempt[d].report.delta = attempt[d].report.rate - prev[d]
PrintsKnown ==
    \A d \in Device : Printing(d) =>
        ~At(d, "store") /\ coord.report.delta = coord.report.rate - prev[d]

(* stop_mining spoils the total, but from the devices that it has stopped  *)
(* the hasher has not had a report since: it holds the hasher's mutex.     *)
StoppedKnown ==
    coord.op = "stop" => \A d \in Device : d < coord.at => prev[d] = Pending[d]
TotalKnown == coord.op # "stop" => total + SumFunction(Pending) = SumFunction(prev)

RatesKnown == StoresKnown /\ PrintsKnown /\ StoppedKnown /\ TotalKnown
RateInv == ~raced /\ ~aborted => RatesKnown

SumsTyped ==
    /\ Pending \in [Device -> Int] /\ prev \in [Device -> Int]
    /\ total \in Int
    /\ SumFunction(Pending) \in Int /\ SumFunction(prev) \in Int
    /\ \A d \in Device : prev[d] \in Int /\ Pending[d] \in Int

LEMMA PendingType == TypesKnown => SumsTyped
  <1> SUFFICES ASSUME TypesKnown PROVE SumsTyped
    OBVIOUS
  <1>1. \A d \in Device : At(d, "add") => attempt[d].report.delta \in Int
    BY AttemptKinds DEF At, Report
  <1>2. Pending \in [Device -> Int]
    BY <1>1 DEF Pending
  <1>3. Rates \subseteq Int
    BY RatesAssumption
  <1>4. prev \in [Device -> Int]
    BY <1>3 DEF TypesKnown
  <1>5. SumFunction(Pending) \in Int /\ SumFunction(prev) \in Int
    BY <1>2, <1>4, SumOfDevices
  <1> HIDE DEF Pending
  <1> QED
    BY <1>2, <1>4, <1>5 DEF TypesKnown, SumsTyped

LEMMA PendingTypeNext == TypesKnown' => SumsTyped'
  BY PendingType, PTL

LEMMA ReportIntegers ==
    ASSUME NEW r \in Report
    PROVE  r.rate \in Int /\ r.delta \in Int
  <1>1. r.rate \in Rates /\ r.delta \in Int
    BY DEF Report
  <1>2. r.rate \in Nat
    BY <1>1, RatesAssumption
  <1> QED
    BY <1>1, <1>2

LEMMA RateInit == Init => RateInv
  <1> SUFFICES ASSUME Init PROVE RatesKnown
    BY DEF RateInv
  <1>1. \A d \in Device : ~At(d, "store") /\ ~At(d, "add")
    BY DEF Init, At
  <1>2. Pending = prev
    BY <1>1 DEF Pending, Init
  <1>3. total = 0 /\ coord.op = "idle"
    BY DEF Init
  <1>4. SumFunction(prev) \in Int
    BY WaitInit, PendingType DEF WaitInv, SumsTyped
  <1>5. TotalKnown
    BY <1>2, <1>3, <1>4 DEF TotalKnown
  <1> QED
    BY <1>1, <1>3, <1>5 DEF RatesKnown, StoresKnown, PrintsKnown, StoppedKnown, Printing

(* A step that neither reports nor stops anything.                         *)
LEMMA NoReport ==
    ASSUME RatesKnown, UNCHANGED <<prev, total>>, Pending' = Pending,
           \A d \in Device : At(d, "store")' => At(d, "store") /\ attempt'[d] = attempt[d],
           \A d \in Device : Printing(d)' => Printing(d) /\ coord' = coord,
           coord.op = "stop" \/ coord'.op = "stop" => coord' = coord
    PROVE  RatesKnown'
  <1>1. StoresKnown' /\ PrintsKnown'
    BY DEF RatesKnown, StoresKnown, PrintsKnown
  <1>2. StoppedKnown'
    BY DEF RatesKnown, StoppedKnown
  <1>3. TotalKnown'
    <2> HIDE DEF Pending
    <2> QED
      BY DEF RatesKnown, TotalKnown
  <1> QED
    BY <1>1, <1>2, <1>3 DEF RatesKnown

(* One of the devices takes a step outside hashrate().                     *)
LEMMA DeviceNoReport ==
    ASSUME WaitInv, WaitInv', RatesKnown, UNCHANGED <<prev, total>>, NEW d \in Device,
           \A e \in Device \ {d} : attempt'[e] = attempt[e],
           ~At(d, "store") /\ ~At(d, "add"), ~At(d, "store")' /\ ~At(d, "add")',
           \A e \in Device : Printing(e)' => Printing(e) /\ coord' = coord,
           coord.op = "stop" \/ coord'.op = "stop" => coord' = coord
    PROVE  RatesKnown'
  <1>1. \A e \in Device : At(e, "store")' => At(e, "store") /\ attempt'[e] = attempt[e]
    BY DEF At
  <1>2. \A e \in Device : At(e, "add")' <=> At(e, "add")
    BY DEF At
  <1>3. \A e \in Device : At(e, "add") => attempt'[e] = attempt[e]
    OBVIOUS
  <1>4. Pending' = Pending
    BY <1>2, <1>3 DEF Pending
  <1> QED
    BY <1>1, <1>4, NoReport

LEMMA RateCallbacks ==
    ASSUME WaitInv, WaitInv', RatesKnown, ~raced', NEW d \in Device,
           \/ \E r \in Runner : KernelEnds(d, r)
           \/ Callback(d) \/ CallbackReads(d) \/ CallbackStores(d) \/ CallbackAdds(d)
           \/ CallbackPushes(d)
    PROVE  RatesKnown'
  <1> USE DEF WaitInv
  <1>1. CASE \E r \in Runner : KernelEnds(d, r)
    <2>1. UNCHANGED <<prev, total, attempt, coord>>
      BY <1>1 DEF KernelEnds, rates
    <2>2. Pending' = Pending
      BY <2>1 DEF Pending, At
    <2> QED
      BY <2>1, <2>2, NoReport DEF At, Printing
  <1>2. CASE Callback(d)
    <2>1. attempt' = [attempt EXCEPT ![d] = [by |-> "callback", stage |-> "lock"]]
      BY <1>2 DEF Callback
    <2>2. attempt[d] = None /\ UNCHANGED <<prev, total, coord>>
      BY <1>2 DEF Callback, DeviceHeld
    <2>3. ~At(d, "store") /\ ~At(d, "add") /\ ~At(d, "store")' /\ ~At(d, "add")'
      BY <2>1, <2>2 DEF At, TypesKnown
    <2>4. \A e \in Device \ {d} : attempt'[e] = attempt[e]
      BY <2>1 DEF TypesKnown
    <2> QED
      BY <2>2, <2>3, <2>4, DeviceNoReport DEF Printing
  <1>3. CASE CallbackReads(d)
    <2>1. PICK rate \in Measured(d) :
             attempt' = [attempt EXCEPT ![d] =
                 [by |-> "callback", stage |-> "store", report |-> ReportOf(d, rate)]]
      BY <1>3 DEF CallbackReads
    <2>2. UNCHANGED <<prev, total, coord>> /\ At(d, "lock") /\ ~Printing(d)
      BY <1>3 DEF CallbackReads, rates
    <2>3. /\ attempt'[d].report = ReportOf(d, rate) /\ attempt'[d].stage = "store"
          /\ \A e \in Device \ {d} : attempt'[e] = attempt[e]
      BY <2>1 DEF TypesKnown
    <2>4. StoresKnown'
      BY <2>2, <2>3 DEF RatesKnown, StoresKnown, At, ReportOf
    <2>5. PrintsKnown'
      BY <2>2, <2>3 DEF RatesKnown, PrintsKnown, At, Printing
    <2>6. \A e \in Device : /\ At(e, "add")' <=> At(e, "add")
                            /\ At(e, "add") => attempt'[e] = attempt[e]
      BY <2>2, <2>3 DEF At
    <2>7. Pending' = Pending
      BY <2>6 DEF Pending
    <2>8. StoppedKnown' /\ TotalKnown'
      <3> HIDE DEF Pending
      <3> QED
        BY <2>2, <2>7 DEF RatesKnown, StoppedKnown, TotalKnown
    <2> QED
      BY <2>4, <2>5, <2>8 DEF RatesKnown
  <1>4. CASE CallbackStores(d)
    <2>1. /\ attempt[d] # None /\ attempt[d].stage = "store"
          /\ attempt[d].report.delta = attempt[d].report.rate - prev[d]
      BY <1>4 DEF CallbackStores, At, RatesKnown, StoresKnown
    <2>2. /\ UNCHANGED <<total, coord>>
          /\ prev' = [prev EXCEPT ![d] = attempt[d].report.rate]
          /\ attempt' = [attempt EXCEPT ![d].stage = "add"]
      BY <1>4 DEF CallbackStores
    <2>3. attempt[d] \in [by : {"callback"}, stage : {"store", "add"}, report : Report]
      BY <2>1, AttemptKinds DEF Attempt
    <2>4. attempt[d].report \in Report
      BY <2>3
    <2>5. attempt[d].report.rate \in Int /\ attempt[d].report.delta \in Int
      BY <2>4, ReportIntegers
    <2>6. /\ attempt'[d].report = attempt[d].report /\ attempt'[d].stage = "add"
          /\ \A e \in Device \ {d} : attempt'[e] = attempt[e]
      BY <2>2, <2>3 DEF TypesKnown
    <2>7. attempt'[d] # None
      <3>1. [attempt[d] EXCEPT !.stage = "add"] \in Attempt
        BY <2>3 DEF Attempt
      <3>2. attempt'[d] = [attempt[d] EXCEPT !.stage = "add"]
        BY <2>2 DEF TypesKnown
      <3> QED
        BY <3>1, <3>2, NoneAssumption
    <2>8. /\ \A e \in Device \ {d} : Pending'[e] = Pending[e]
          /\ Pending[d] = 0 /\ Pending'[d] = attempt[d].report.delta
      BY <2>1, <2>6, <2>7 DEF Pending, At
    <2>9. /\ prev'[d] = attempt[d].report.rate
          /\ \A e \in Device \ {d} : prev'[e] = prev[e]
      BY <2>2 DEF TypesKnown
    <2>10. StoresKnown'
      BY <2>6, <2>9 DEF RatesKnown, StoresKnown, At
    <2>11. ~Printing(d) /\ \A e \in Device : Printing(e)' <=> Printing(e)
      BY <1>4, <2>2 DEF CallbackStores, RatesKnown, PrintsKnown, Printing
    <2>12. PrintsKnown'
      <3> SUFFICES ASSUME NEW e \in Device, Printing(e)'
                   PROVE  ~At(e, "store")' /\ coord'.report.delta = coord'.report.rate - prev'[e]
        BY DEF PrintsKnown
      <3>1. Printing(e) /\ e \in Device \ {d}
        BY <2>11
      <3>2. ~At(e, "store") /\ coord.report.delta = coord.report.rate - prev[e]
        BY <3>1 DEF RatesKnown, PrintsKnown
      <3>3. ~At(e, "store")'
        BY <3>1, <3>2, <2>6 DEF At
      <3> QED
        BY <2>2, <2>9, <3>1, <3>2, <3>3
    <2> HIDE DEF Pending
    <2>13. prev[d] \in Int /\ Pending \in [Device -> Int] /\ Pending' \in [Device -> Int]
           /\ prev \in [Device -> Int] /\ prev' \in [Device -> Int]
           /\ total \in Int
           /\ SumFunction(Pending) \in Int /\ SumFunction(prev) \in Int
      BY PendingType, PendingTypeNext DEF SumsTyped
    <2>14. StoppedKnown'
      <3> SUFFICES ASSUME coord.op = "stop", NEW e \in Device, e < coord.at
                   PROVE  prev'[e] = Pending'[e]
        BY <2>2 DEF StoppedKnown
      <3>1. prev[e] = Pending[e]
        BY DEF RatesKnown, StoppedKnown
      <3>2. CASE e = d
        BY <3>1, <3>2, <2>1, <2>5, <2>8, <2>9
      <3>3. CASE e # d
        BY <3>1, <3>3, <2>8, <2>9
      <3> QED
        BY <3>2, <3>3
    <2>15. /\ SumFunction(prev') = SumFunction(prev) - prev[d] + attempt[d].report.rate
           /\ SumFunction(Pending') = SumFunction(Pending) + attempt[d].report.delta
      <3>1. SumFunction(prev') = SumFunction(prev) - prev[d] + prev'[d]
        BY <2>9, <2>13, SumOneChanged
      <3>2. SumFunction(Pending') = SumFunction(Pending) - Pending[d] + Pending'[d]
        BY <2>8, <2>13, SumOneChanged
      <3> QED
        BY <2>5, <2>8, <2>9, <2>13, <3>1, <3>2
    <2>16. TotalKnown'
      <3> SUFFICES ASSUME coord.op # "stop"
                   PROVE  total' + SumFunction(Pending') = SumFunction(prev')
        BY <2>2 DEF TotalKnown
      <3>1. total + SumFunction(Pending) = SumFunction(prev)
        BY DEF RatesKnown, TotalKnown
      <3> QED
        BY <2>1, <2>2, <2>5, <2>13, <2>15, <3>1
    <2> QED
      BY <2>10, <2>12, <2>14, <2>16 DEF RatesKnown
  <1>5. CASE CallbackAdds(d)
    <2>1. /\ attempt[d] # None /\ attempt[d].stage = "add" /\ coord.op # "stop"
          /\ UNCHANGED <<prev, coord>>
          /\ total' = total + attempt[d].report.delta
          /\ attempt' = [attempt EXCEPT ![d] = [by |-> "callback", stage |-> "push"]]
      BY <1>5 DEF CallbackAdds, At, HasherHeld
    <2>2. attempt[d].report.delta \in Int
      BY <2>1, AttemptKinds, ReportIntegers
    <2>3. attempt'[d].stage = "push"
      BY <2>1 DEF TypesKnown
    <2>4. \A e \in Device \ {d} : attempt'[e] = attempt[e]
      BY <2>1 DEF TypesKnown
    <2>5. \A e \in Device : At(e, "store")' => At(e, "store") /\ attempt'[e] = attempt[e]
      BY <2>3, <2>4 DEF At
    <2>6. /\ \A e \in Device \ {d} : Pending'[e] = Pending[e]
          /\ Pending[d] = attempt[d].report.delta /\ Pending'[d] = 0
      BY <2>1, <2>3, <2>4 DEF Pending, At
    <2>7. StoresKnown' /\ PrintsKnown'
      BY <2>1, <2>5 DEF RatesKnown, StoresKnown, PrintsKnown, Printing
    <2> HIDE DEF Pending
    <2>8. /\ Pending \in [Device -> Int] /\ Pending' \in [Device -> Int]
          /\ total \in Int
          /\ SumFunction(Pending) \in Int /\ SumFunction(prev) \in Int
      BY PendingType, PendingTypeNext DEF SumsTyped
    <2>9. SumFunction(Pending') = SumFunction(Pending) - Pending[d] + Pending'[d]
      BY <2>6, <2>8, SumOneChanged
    <2>10. total + SumFunction(Pending) = SumFunction(prev)
      BY <2>1 DEF RatesKnown, TotalKnown
    <2>11. total' + SumFunction(Pending') = SumFunction(prev)
      BY <2>1, <2>2, <2>6, <2>8, <2>9, <2>10
    <2>12. TotalKnown' /\ StoppedKnown'
      BY <2>1, <2>11 DEF TotalKnown, StoppedKnown
    <2> QED
      BY <2>7, <2>12 DEF RatesKnown
  <1>6. CASE CallbackPushes(d)
    <2>1. /\ UNCHANGED <<prev, total, coord>>
          /\ attempt[d] # None /\ attempt[d].stage = "push"
          /\ attempt' = [attempt EXCEPT ![d] = Trying(d, "callback")]
      BY <1>6 DEF CallbackPushes, At, rates
    <2>2. /\ attempt'[d] # None => attempt'[d].stage = "ring"
          /\ \A e \in Device \ {d} : attempt'[e] = attempt[e]
      BY <2>1, TryingTypes DEF TypesKnown
    <2>3. ~At(d, "store") /\ ~At(d, "add") /\ ~At(d, "store")' /\ ~At(d, "add")'
      BY <2>1, <2>2 DEF At
    <2> QED
      BY <2>1, <2>2, <2>3, DeviceNoReport DEF Printing
  <1> QED
    BY <1>1, <1>2, <1>3, <1>4, <1>5, <1>6

LEMMA RateTry ==
    ASSUME WaitInv, WaitInv', RatesKnown, NEW d \in Device, Try(d)
    PROVE  RatesKnown'
  <1> USE DEF WaitInv
  <1>1. UNCHANGED <<prev, total, coord>>
    BY DEF Try, TryAborts, TrySkips, TakeAllocator, GenerateJob, Allocate, rates
  <1>2. attempt[d] # None /\ attempt[d].stage \in {"ring", "generate", "alloc"}
    BY DEF Try, TryAborts, TrySkips, TakeAllocator, GenerateJob, Allocate, At, Idling
  <1>3. attempt[d] \in [by : {"callback", "set", "free"},
                        stage : {"ring", "generate", "alloc"},
                        runner : Runner, f : Fraction]
    BY <1>2, AttemptKinds
  <1>4. /\ \A e \in Device \ {d} : attempt'[e] = attempt[e]
        /\ attempt'[d] # None => attempt'[d].stage \notin {"store", "add"}
    <2>1. CASE TryAborts(d)
      BY <1>2, <2>1 DEF TryAborts
    <2>2. CASE TrySkips(d) \/ Allocate(d)
      <3>1. attempt' = [attempt EXCEPT ![d] = NextRunner(d)]
        BY <2>2 DEF TrySkips, Allocate
      <3> QED
        BY <1>2, <3>1, NextRunnerTypes DEF TypesKnown
    <2>3. CASE TakeAllocator(d) \/ GenerateJob(d)
      <3>1. PICK stage \in {"generate", "alloc"} :
               attempt' = [attempt EXCEPT ![d].stage = stage]
        BY <2>3 DEF TakeAllocator, GenerateJob
      <3> QED
        BY <1>3, <3>1 DEF TypesKnown
    <2> QED
      BY <2>1, <2>2, <2>3 DEF Try
  <1>5. ~At(d, "store") /\ ~At(d, "add") /\ ~At(d, "store")' /\ ~At(d, "add")'
    BY <1>2, <1>4 DEF At
  <1> QED
    BY <1>1, <1>4, <1>5, DeviceNoReport DEF Printing

LEMMA RatePrints ==
    ASSUME WaitInv, WaitInv', RatesKnown, ~raced',
           BeginPrint \/ PrintReads \/ PrintStores \/ HashratesReturns \/ EndPrint
    PROVE  RatesKnown'
  <1> USE DEF WaitInv
  <1>1. UNCHANGED attempt /\ coord.op # "stop" /\ coord'.op # "stop"
    <2>1. CASE BeginPrint \/ HashratesReturns \/ EndPrint
      BY <2>1 DEF BeginPrint, HashratesReturns, EndPrint, Idle
    <2>2. CASE PrintReads \/ PrintStores
      <3>1. coord \in [op : {"print"}, at : Device \cup {Devices + 1},
                       report : Report \cup {None}]
        BY <2>2, CoordKinds DEF PrintReads, PrintStores
      <3> QED
        BY <2>2, <3>1 DEF PrintReads, PrintStores
    <2> QED
      BY <2>1, <2>2
  <1>2. Pending' = Pending
    BY <1>1 DEF Pending, At
  <1>3. StoppedKnown'
    BY <1>1 DEF StoppedKnown
  <1>4. \A d \in Device : \A stage : At(d, stage)' <=> At(d, stage)
    BY <1>1 DEF At
  <1>5. CASE BeginPrint \/ HashratesReturns \/ EndPrint
    <2>1. UNCHANGED <<prev, total>> /\ \A d \in Device : ~Printing(d)'
      BY <1>5 DEF BeginPrint, HashratesReturns, EndPrint, rates, Printing
    <2> QED
      BY <1>1, <1>2, <1>4, <2>1, NoReport
  <1>6. CASE PrintReads
    <2>1. PICK rate \in Measured(coord.at) :
             coord' = [coord EXCEPT !.report = ReportOf(coord.at, rate)]
      BY <1>6 DEF PrintReads
    <2>2. /\ UNCHANGED <<prev, total>> /\ coord.at \in Device
          /\ ~At(coord.at, "store")
      BY <1>6 DEF PrintReads, rates
    <2>3. coord \in [op : {"print"}, at : Device \cup {Devices + 1},
                     report : Report \cup {None}]
      BY <1>6, CoordKinds DEF PrintReads
    <2>4. coord'.at = coord.at /\ coord'.report = ReportOf(coord.at, rate)
      BY <2>1, <2>3
    <2>5. PrintsKnown'
      BY <1>4, <2>2, <2>4 DEF PrintsKnown, Printing, ReportOf
    <2>6. StoresKnown'
      BY <1>1, <1>4, <2>2 DEF RatesKnown, StoresKnown
    <2>7. TotalKnown'
      <3> HIDE DEF Pending
      <3> QED
        BY <1>1, <1>2, <2>2 DEF RatesKnown, TotalKnown
    <2> QED
      BY <1>3, <2>5, <2>6, <2>7 DEF RatesKnown
  <1>7. CASE PrintStores
    <2> DEFINE d == coord.at
    <2>1. /\ d \in Device /\ coord.report # None /\ coord.op = "print"
          /\ prev' = [prev EXCEPT ![d] = coord.report.rate]
          /\ total' = total + coord.report.delta
          /\ coord' = [coord EXCEPT !.at = @ + 1, !.report = None]
      BY <1>7 DEF PrintStores
    <2>2. coord \in [op : {"print"}, at : Device \cup {Devices + 1},
                     report : Report \cup {None}]
      BY <2>1, CoordKinds
    <2>3. coord.report.rate \in Int /\ coord.report.delta \in Int
      BY <2>1, <2>2, ReportIntegers
    <2>4. ~At(d, "store") /\ coord.report.delta = coord.report.rate - prev[d]
      BY <2>1 DEF RatesKnown, PrintsKnown, Printing
    <2>5. coord'.report = None
      BY <2>1, <2>2
    <2>6. prev'[d] = coord.report.rate /\ \A e \in Device \ {d} : prev'[e] = prev[e]
      BY <2>1 DEF TypesKnown
    <2>7. PrintsKnown'
      BY <2>5 DEF PrintsKnown, Printing
    <2>8. StoresKnown'
      BY <1>1, <1>4, <2>4, <2>6 DEF RatesKnown, StoresKnown
    <2> HIDE DEF Pending
    <2>9. /\ prev \in [Device -> Int] /\ prev' \in [Device -> Int] /\ prev[d] \in Int
          /\ total \in Int
          /\ SumFunction(Pending) \in Int /\ SumFunction(prev) \in Int
      BY <2>1, PendingType, PendingTypeNext DEF SumsTyped
    <2>10. SumFunction(prev') = SumFunction(prev) - prev[d] + prev'[d]
      BY <2>1, <2>6, <2>9, SumOneChanged
    <2>11. total + SumFunction(Pending) = SumFunction(prev)
      BY <2>1 DEF RatesKnown, TotalKnown
    <2>12. total' + SumFunction(Pending') = SumFunction(prev')
      BY <1>2, <2>1, <2>3, <2>4, <2>6, <2>9, <2>10, <2>11
    <2> QED
      BY <1>3, <2>7, <2>8, <2>12 DEF RatesKnown, TotalKnown
  <1> QED
    BY <1>5, <1>6, <1>7

LEMMA RateStops ==
    ASSUME WaitInv, WaitInv', RatesKnown, ~aborted', Stop \/ StopDevice \/ StopReturns
    PROVE  RatesKnown'
  <1> USE DEF WaitInv
  <1>1. UNCHANGED attempt
    BY DEF Stop, StopDevice, StopReturns
  <1>2. Pending' = Pending
    BY <1>1 DEF Pending, At
  <1>3. \A d \in Device : \A stage : At(d, stage)' <=> At(d, stage)
    BY <1>1 DEF At
  <1>4. PrintsKnown'
    <2>1. coord'.op # "print"
      <3>1. CASE Stop \/ StopReturns
        BY <3>1 DEF Stop, StopReturns
      <3>2. CASE StopDevice
        <4>1. coord \in [op : {"stop"}, at : Device \cup {Devices + 1}]
          BY <3>2, CoordKinds DEF StopDevice
        <4> QED
          BY <3>2, <4>1 DEF StopDevice
      <3> QED
        BY <3>1, <3>2
    <2> QED
      BY <2>1 DEF PrintsKnown, Printing
  <1>5. CASE Stop
    <2>1. UNCHANGED <<prev, total>> /\ coord' = [op |-> "stop", at |-> 1]
      BY <1>5 DEF Stop, rates
    <2>2. StoresKnown'
      BY <1>1, <1>3, <2>1 DEF RatesKnown, StoresKnown
    <2>3. StoppedKnown'
      <3>1. \A d \in Device : ~(d < 1)
        BY DEF Device
      <3> QED
        BY <2>1, <3>1 DEF StoppedKnown
    <2>4. TotalKnown'
      BY <2>1 DEF TotalKnown
    <2> QED
      BY <1>4, <2>2, <2>3, <2>4 DEF RatesKnown
  <1>6. CASE StopDevice
    <2> DEFINE d == coord.at
    <2>1. /\ coord.op = "stop" /\ d \in Device /\ attempt[d] = None
          /\ prev' = [prev EXCEPT ![d] = 0]
          /\ coord' = [coord EXCEPT !.at = @ + 1]
      BY <1>6 DEF StopDevice, DeviceHeld
    <2>2. coord \in [op : {"stop"}, at : Device \cup {Devices + 1}]
      BY <2>1, CoordKinds
    <2>3. coord'.op = "stop" /\ coord'.at = d + 1
      BY <2>1, <2>2
    <2>4. prev'[d] = 0 /\ \A e \in Device \ {d} : prev'[e] = prev[e]
      BY <2>1 DEF TypesKnown
    <2>5. ~At(d, "store") /\ Pending[d] = 0
      BY <2>1 DEF At, Pending
    <2>6. StoresKnown'
      BY <1>1, <1>3, <2>4, <2>5 DEF RatesKnown, StoresKnown
    <2>7. TotalKnown'
      BY <2>3 DEF TotalKnown
    <2>8. StoppedKnown'
      <3> SUFFICES ASSUME NEW e \in Device, e < d + 1
                   PROVE  prev'[e] = Pending[e]
        BY <1>2, <2>3 DEF StoppedKnown
      <3>1. CASE e = d
        BY <3>1, <2>4, <2>5
      <3>2. CASE e # d
        <4>1. e < d
          BY <3>2, <2>1 DEF Device
        <4> HIDE DEF Pending
        <4>2. prev[e] = Pending[e]
          BY <2>1, <4>1 DEF RatesKnown, StoppedKnown
        <4> QED
          BY <3>2, <2>4, <4>2
      <3> QED
        BY <3>1, <3>2
    <2> QED
      BY <1>4, <2>6, <2>7, <2>8 DEF RatesKnown
  <1>7. CASE StopReturns
    <2>1. UNCHANGED <<prev, total>> /\ coord'.op = "idle"
      BY <1>7 DEF StopReturns, rates
    <2>2. StoresKnown' /\ StoppedKnown'
      BY <1>1, <1>3, <2>1 DEF RatesKnown, StoresKnown, StoppedKnown
    <2>3. total + SumFunction(Pending) = SumFunction(prev)
      <3>1. coord.op = "stop" /\ total = 0 /\ coord.at = Devices + 1
        BY <1>7 DEF StopReturns
      <3>2. \A d \in Device : d < Devices + 1
        BY RatesAssumption DEF Device
      <3> HIDE DEF Pending
      <3>3. \A d \in Device : prev[d] = Pending[d]
        BY <3>1, <3>2 DEF RatesKnown, StoppedKnown
      <3>4. /\ prev \in [Device -> Int] /\ Pending \in [Device -> Int]
            /\ SumFunction(Pending) \in Int
        BY PendingType DEF SumsTyped
      <3>5. prev = Pending
        BY <3>3, <3>4, SumsEqual
      <3> QED
        BY <3>1, <3>4, <3>5
    <2>4. TotalKnown'
      <3> HIDE DEF Pending
      <3> QED
        BY <1>2, <2>1, <2>3 DEF TotalKnown
    <2> QED
      BY <1>4, <2>2, <2>4 DEF RatesKnown
  <1> QED
    BY <1>5, <1>6, <1>7

LEMMA RateSetWork ==
    ASSUME WaitInv, WaitInv', RatesKnown, UpdateFraction \/ SetsWork
    PROVE  RatesKnown'
  <1> USE DEF WaitInv
  <1>1. UNCHANGED <<prev, total, coord>>
    BY DEF UpdateFraction, SetsWork, SetWork, NewGenerator, Activate, Start,
           SetWorkReturns, rates
  <1>2. \A d \in Device : Printing(d)' => Printing(d)
    BY <1>1 DEF Printing
  <1>3. CASE Start
    <2>1. /\ attempt' = [attempt EXCEPT ![setting.at] = Trying(setting.at, "set")]
          /\ attempt[setting.at] = None /\ setting.at \in Device
      BY <1>3 DEF Start, DeviceHeld, TypesKnown
    <2>2. PICK d \in Device : d = setting.at
      BY <2>1
    <2>3. /\ attempt'[d] # None => attempt'[d].stage = "ring"
          /\ \A e \in Device \ {d} : attempt'[e] = attempt[e]
      BY <2>1, <2>2, TryingTypes DEF TypesKnown
    <2>4. ~At(d, "store") /\ ~At(d, "add") /\ ~At(d, "store")' /\ ~At(d, "add")'
      BY <2>1, <2>2, <2>3 DEF At
    <2> QED
      BY <1>1, <1>2, <2>3, <2>4, DeviceNoReport
  <1>4. CASE ~Start
    <2>1. UNCHANGED attempt
      BY <1>4 DEF UpdateFraction, SetsWork, SetWork, NewGenerator, Activate, SetWorkReturns
    <2>2. Pending' = Pending
      BY <2>1 DEF Pending, At
    <2> QED
      BY <1>1, <1>2, <2>1, <2>2, NoReport DEF At
  <1> QED
    BY <1>3, <1>4

LEMMA RateNext == WaitInv /\ WaitInv' /\ RateInv /\ [Next]_vars => RateInv'
  <1> SUFFICES ASSUME WaitInv, WaitInv', RateInv, [Next]_vars, ~raced', ~aborted'
               PROVE  RatesKnown'
    BY DEF RateInv
  <1>1. CASE UNCHANGED vars
    <2>1. UNCHANGED <<prev, total, attempt, coord, raced, aborted>>
      BY <1>1 DEF vars, rates, rest
    <2>2. RatesKnown
      BY <2>1 DEF RateInv
    <2>3. Pending' = Pending
      BY <2>1 DEF Pending, At
    <2> QED
      BY <2>1, <2>2, <2>3, NoReport DEF At, Printing
  <1>2. CASE Next
    <2>1. ~raced
      BY <1>2 DEF Next, KernelEnds, Callback, CallbackReads, CallbackStores, CallbackAdds,
            CallbackPushes, Try, TryAborts, TrySkips, TakeAllocator, GenerateJob, Allocate,
            Coordinate, BeginPrint, PrintReads, PrintStores, HashratesReturns, EndPrint,
            Stop, StopDevice, StopReturns, UpdateFraction, SetsWork, SetWork, NewGenerator,
            Activate, Start, SetWorkReturns, DropBuffer, AllocationPossible, FreeReturns
    <2>2. RatesKnown
      BY <1>2, <2>1 DEF RateInv, Next
    <2>3. ASSUME NEW d \in Device,
                 \/ \E r \in Runner : KernelEnds(d, r)
                 \/ Callback(d) \/ CallbackReads(d) \/ CallbackStores(d) \/ CallbackAdds(d)
                 \/ CallbackPushes(d)
          PROVE  RatesKnown'
      BY <2>2, <2>3, RateCallbacks
    <2>4. ASSUME NEW d \in Device, Try(d)
          PROVE  RatesKnown'
      BY <2>2, <2>4, RateTry
    <2>5. CASE Coordinate \/ SetsWork
      BY <2>2, <2>5, RatePrints, RateStops, RateSetWork DEF Coordinate
    <2>6. CASE DropBuffer \/ FreeReturns
      <3>1. UNCHANGED <<prev, total, attempt, coord>>
        BY <2>6 DEF DropBuffer, FreeReturns, rates
      <3>2. Pending' = Pending
        BY <3>1 DEF Pending, At
      <3> QED
        BY <2>2, <3>1, <3>2, NoReport DEF At, Printing
    <2>7. CASE AllocationPossible
      <3>1. /\ UNCHANGED <<prev, total, coord>>
            /\ freeing \in Device /\ attempt[freeing] = None
            /\ attempt' = [attempt EXCEPT ![freeing] = Trying(freeing, "free")]
        BY <2>7 DEF AllocationPossible, rates, DeviceHeld
      <3>2. PICK d \in Device : d = freeing
        BY <3>1
      <3>3. /\ attempt'[d] # None => attempt'[d].stage = "ring"
            /\ \A e \in Device \ {d} : attempt'[e] = attempt[e]
        BY <3>1, <3>2, TryingTypes DEF WaitInv, TypesKnown
      <3>4. ~At(d, "store") /\ ~At(d, "add") /\ ~At(d, "store")' /\ ~At(d, "add")'
        BY <3>1, <3>2, <3>3 DEF At
      <3> QED
        BY <2>2, <3>1, <3>3, <3>4, DeviceNoReport DEF Printing
    <2> QED
      BY <1>2, <2>3, <2>4, <2>5, <2>6, <2>7 DEF Next
  <1> QED
    BY <1>1, <1>2

(* The hasher's total is the sum of what the devices have reported, up to  *)
(* what callbacks carry to it, for any number of devices and any rates, as *)
(* long as no print has met a callback inside hashrate() - and also after  *)
(* a stop_mining that its assertion has let pass.                          *)
THEOREM RateSumHolds == Spec => []RateSum
  <1>1. RateInv => RateSum
    BY DEF RateInv, RatesKnown, TotalKnown, RateSum, Pending
  <1> QED
    BY RateInit, RateNext, WaitHolds, <1>1, PTL DEF Spec

-----------------------------------------------------------------------------
(* The Buffers.                                                            *)
StateKnown ==
    /\ measured \in SUBSET Device /\ active \in SUBSET Device
    /\ kernels \in [Device -> SUBSET Runner]
    /\ callers \in [Device -> Nat] /\ held \in Nat
    /\ stops \in 0 .. MaxStops
    /\ failed \in BOOLEAN /\ aborted \in BOOLEAN /\ raced \in BOOLEAN

KernelCount == [d \in Device |-> Cardinality(kernels[d])]
InCallback  ==
    {d \in Device : \E stage \in {"lock", "store", "add", "push"} : At(d, stage)}
Reserved    == IF \E d \in Device : AllocatorOf(d) THEN 1 ELSE 0

(* Every callback has the Buffer of its kernel, and the Allocator of a     *)
(* try_start is room for one more.                                         *)
BuffersKnown == InCallbacks <= held /\ InUse + Reserved <= Capacity

BufferInv == StateKnown /\ BuffersKnown

LEMMA DevicesSumNat ==
    ASSUME NEW f \in [Device -> Nat]
    PROVE  /\ SumFunction(f) \in Nat /\ f \in [Device -> Int]
           /\ \A d \in Device : f[d] <= SumFunction(f)
  <1>1. DOMAIN f = Device /\ \A d \in Device : f[d] \in Nat
    OBVIOUS
  <1>2. /\ SumFunctionOnSet(f, Device) \in Nat
        /\ \A d \in Device : f[d] <= SumFunctionOnSet(f, Device)
    BY <1>1, DevicesFinite, SumNonnegative
  <1>3. f \in [Device -> Int]
    OBVIOUS
  <1> QED
    BY <1>1, <1>2, <1>3 DEF SumFunction

LEMMA RunnersFinite ==
    ASSUME NEW R \in SUBSET Runner
    PROVE  IsFiniteSet(R) /\ Cardinality(R) \in Nat
  <1>1. 1 \in Int /\ 2 \in Int
    OBVIOUS
  <1>2. IsFiniteSet(1 .. 2)
    BY <1>1, FS_Interval
  <1>3. IsFiniteSet(Runner)
    BY <1>2 DEF Runner
  <1> QED
    BY <1>3, FS_Subset, FS_CardinalityType

BuffersTyped ==
    /\ KernelCount \in [Device -> Int] /\ SumFunction(KernelCount) \in Nat
    /\ callers \in [Device -> Int] /\ SumFunction(callers) \in Nat
    /\ \A d \in Device : callers[d] <= SumFunction(callers)
    /\ IsFiniteSet(InCallback) /\ Cardinality(InCallback) \in Nat
    /\ InUse = held + SumFunction(KernelCount)
    /\ InCallbacks = SumFunction(callers) + Cardinality(InCallback)

LEMMA BufferTypes == StateKnown => BuffersTyped
  <1> SUFFICES ASSUME StateKnown PROVE BuffersTyped
    OBVIOUS
  <1>1. KernelCount \in [Device -> Nat]
    BY RunnersFinite DEF KernelCount, StateKnown
  <1>2. callers \in [Device -> Nat]
    BY DEF StateKnown
  <1>3. InCallback \in SUBSET Device
    BY DEF InCallback
  <1>4. IsFiniteSet(InCallback) /\ Cardinality(InCallback) \in Nat
    BY <1>3, DevicesFinite, FS_Subset, FS_CardinalityType
  <1>5. InUse = held + SumFunction(KernelCount)
    BY DEF InUse, KernelCount
  <1>6. InCallbacks = SumFunction(callers) + Cardinality(InCallback)
    BY DEF InCallbacks, InCallback
  <1> HIDE DEF KernelCount, InCallback
  <1> QED
    BY <1>1, <1>2, <1>4, <1>5, <1>6, DevicesSumNat DEF BuffersTyped

LEMMA BufferTypesNext == StateKnown' => BuffersTyped'
  BY BufferTypes, PTL

LEMMA StateNext == WaitInv /\ BufferInv /\ Next => StateKnown'
  <1> SUFFICES ASSUME WaitInv, BufferInv, Next PROVE StateKnown'
    OBVIOUS
  <1> USE DEF WaitInv, BufferInv
  <1>1. measured' \in SUBSET Device /\ active' \in SUBSET Device
    <2>1. \A d \in Device : Try(d) => UNCHANGED <<measured, active>>
      BY DEF Try, TryAborts, TrySkips, TakeAllocator, GenerateJob, Allocate, rates
    <2>2. Coordinate \/ SetsWork => measured' \in SUBSET Device /\ active' \in SUBSET Device
      BY DEF StateKnown, Coordinate, BeginPrint, PrintReads, PrintStores, HashratesReturns,
             EndPrint, Stop, StopDevice, StopReturns, UpdateFraction, SetsWork, SetWork,
             NewGenerator, Activate, Start, SetWorkReturns, rates
    <2> QED
      BY <2>1, <2>2 DEF StateKnown, Next, KernelEnds, Callback, CallbackReads,
            CallbackStores, CallbackAdds, CallbackPushes, DropBuffer,
            AllocationPossible, FreeReturns, rates
  <1>2. Coordinate \/ SetsWork => UNCHANGED <<kernels, callers, held, failed>>
    BY DEF Coordinate, BeginPrint, PrintReads, PrintStores, HashratesReturns,
             EndPrint, Stop, StopDevice, StopReturns, UpdateFraction, SetsWork, SetWork,
             NewGenerator, Activate, Start, SetWorkReturns, ring
  <1>3. \A d \in Device : Try(d) =>
           /\ UNCHANGED <<callers, held>>
           /\ kernels' = kernels \/ kernels' = [kernels EXCEPT ![d] = @ \cup {attempt[d].runner}]
           /\ failed' = failed \/ failed' = TRUE
    BY DEF Try, TryAborts, TrySkips, TakeAllocator, GenerateJob, Allocate, ring
  <1>4. kernels' \in [Device -> SUBSET Runner]
    <2>1. \A d \in Device : Try(d) => attempt[d].runner \in Runner
      <3> SUFFICES ASSUME NEW d \in Device, Try(d) PROVE attempt[d].runner \in Runner
        OBVIOUS
      <3>1. attempt[d] # None /\ attempt[d].stage \in {"ring", "generate", "alloc"}
        BY DEF Try, TryAborts, TrySkips, TakeAllocator, GenerateJob, Allocate, At, Idling
      <3>2. attempt[d] \in [by : {"callback", "set", "free"},
                            stage : {"ring", "generate", "alloc"},
                            runner : Runner, f : Fraction]
        BY <3>1, AttemptKinds
      <3> QED
        BY <3>2
    <2>2. \A d \in Device : Try(d) => kernels' \in [Device -> SUBSET Runner]
      BY <1>3, <2>1 DEF StateKnown
    <2> QED
      BY <1>2, <2>2 DEF StateKnown, Next, KernelEnds, Callback, CallbackReads,
            CallbackStores, CallbackAdds, CallbackPushes, DropBuffer,
            AllocationPossible, FreeReturns, ring
  <1>5. callers' \in [Device -> Nat] /\ held' \in Nat
    <2>1. DropBuffer => callers' = callers /\ held' \in Nat
      <3>1. InCallbacks \in Nat
        BY BufferTypes DEF BuffersTyped
      <3> QED
        BY <3>1 DEF DropBuffer, StateKnown
    <2>2. \A d \in Device : Callback(d) => callers' \in [Device -> Nat] /\ held' = held
      BY DEF Callback, StateKnown
    <2>3. \A d \in Device : \A r \in Runner : KernelEnds(d, r) =>
             callers' \in [Device -> Nat] /\ held' \in Nat
      BY DEF KernelEnds, StateKnown
    <2> QED
      BY <1>2, <1>3, <2>1, <2>2, <2>3 DEF StateKnown, Next, CallbackReads,
            CallbackStores, CallbackAdds, CallbackPushes, AllocationPossible, FreeReturns, ring
  <1>6. stops' \in 0 .. MaxStops
    <2>1. Coordinate \/ SetsWork => stops' = stops \/ (stops < MaxStops /\ stops' = stops + 1)
      BY DEF Coordinate, BeginPrint, PrintReads, PrintStores, HashratesReturns,
             EndPrint, Stop, StopDevice, StopReturns, UpdateFraction, SetsWork, SetWork,
             NewGenerator, Activate, Start, SetWorkReturns, rest
    <2>2. Coordinate \/ SetsWork => stops' \in 0 .. MaxStops
      BY <2>1, BoundAssumption DEF StateKnown
    <2> QED
      BY <2>2 DEF StateKnown, Next, Try, TryAborts, TrySkips, TakeAllocator, GenerateJob,
            Allocate, KernelEnds, Callback, CallbackReads,
            CallbackStores, CallbackAdds, CallbackPushes, DropBuffer,
            AllocationPossible, FreeReturns, rest
  <1>7. failed' \in BOOLEAN
    <2>1. failed' = failed \/ failed' = TRUE \/ failed' = FALSE
      BY <1>2, <1>3 DEF Next, KernelEnds, Callback, CallbackReads,
            CallbackStores, CallbackAdds, CallbackPushes, DropBuffer,
            AllocationPossible, FreeReturns, ring
    <2>2. failed \in BOOLEAN
      BY DEF StateKnown
    <2> QED
      BY <2>1, <2>2, Zenon
  <1>8. aborted' \in BOOLEAN
    <2>1. \/ aborted' = aborted \/ aborted' = TRUE
          \/ aborted' = (total # 0)
      BY DEF Next, Try, TryAborts, TrySkips, TakeAllocator, GenerateJob,
             Allocate, KernelEnds, Callback, CallbackReads, CallbackStores, CallbackAdds,
             CallbackPushes, DropBuffer, AllocationPossible, FreeReturns, rest,
             Coordinate, BeginPrint, PrintReads, PrintStores, HashratesReturns,
             EndPrint, Stop, StopDevice, StopReturns, UpdateFraction, SetsWork, SetWork,
             NewGenerator, Activate, Start, SetWorkReturns
    <2>2. aborted \in BOOLEAN
      BY DEF StateKnown
    <2> QED
      BY <2>1, <2>2, Zenon
  <1>9. raced' \in BOOLEAN
    <2>1. \/ raced' = raced \/ \E d \in Device : raced' = (raced \/ Printing(d))
          \/ raced' = (raced \/ At(coord.at, "store"))
      BY DEF Next, Try, TryAborts, TrySkips, TakeAllocator, GenerateJob,
             Allocate, KernelEnds, Callback, CallbackReads, CallbackStores, CallbackAdds,
             CallbackPushes, DropBuffer, AllocationPossible, FreeReturns,
             Coordinate, BeginPrint, PrintReads, PrintStores, HashratesReturns,
             EndPrint, Stop, StopDevice, StopReturns, UpdateFraction, SetsWork, SetWork,
             NewGenerator, Activate, Start, SetWorkReturns
    <2>2. raced \in BOOLEAN
      BY DEF StateKnown
    <2> QED
      BY <2>1, <2>2, Zenon
  <1> QED
    BY <1>1, <1>4, <1>5, <1>6, <1>7, <1>8, <1>9 DEF StateKnown

(* A step that neither takes nor gives back a Buffer.                      *)
LEMMA SameBuffers ==
    ASSUME WaitInv, BufferInv, UNCHANGED <<kernels, callers, held>>, InCallback' = InCallback,
           \A d \in Device : AllocatorOf(d)' => AllocatorOf(d)
    PROVE  BuffersKnown'
  <1>1. InCallbacks' = InCallbacks /\ InUse' = InUse
    <2>1. InCallbacks' = InCallbacks
      BY DEF InCallbacks, InCallback
    <2>2. InUse' = InUse
      BY DEF InUse
    <2> QED
      BY <2>1, <2>2
  <1>2. InUse \in Nat
    BY BufferTypes DEF BuffersTyped, BufferInv, StateKnown
  <1>3. Reserved' = Reserved \/ (Reserved' = 0 /\ Reserved = 1)
    BY DEF Reserved
  <1>4. InUse + Reserved' <= Capacity
    <2>1. InUse + Reserved <= Capacity
      BY DEF BufferInv, BuffersKnown
    <2>2. Capacity \in Nat
      BY BoundAssumption
    <2>3. CASE Reserved' = Reserved
      BY <2>1, <2>3
    <2>4. CASE Reserved' = 0 /\ Reserved = 1
      <3>1. InUse + 1 <= Capacity
        BY <2>1, <2>4
      <3>2. InUse + 0 <= Capacity
        BY <1>2, <2>2, <3>1
      <3> QED
        BY <2>4, <3>2
    <2> QED
      BY <1>3, <2>3, <2>4
  <1> QED
    BY <1>1, <1>4 DEF BufferInv, BuffersKnown

(* An attempt stays on one side of handle_finished_job.                    *)
LEMMA SameSide ==
    ASSUME NEW d \in Device, \A e \in Device \ {d} : attempt'[e] = attempt[e],
           attempt[d] # None => attempt[d].stage \in {"ring", "generate", "alloc"},
           attempt'[d] # None => attempt'[d].stage \in {"ring", "generate", "alloc"}
    PROVE  InCallback' = InCallback
  <1>1. \A e \in Device : \A stage \in {"lock", "store", "add", "push"} :
           At(e, stage)' <=> At(e, stage)
    BY DEF At
  <1> QED
    BY <1>1 DEF InCallback

LEMMA BufferCallbacks ==
    ASSUME WaitInv, BufferInv, StateKnown', NEW d \in Device,
           \/ \E r \in Runner : KernelEnds(d, r)
           \/ Callback(d) \/ CallbackReads(d) \/ CallbackStores(d) \/ CallbackAdds(d)
           \/ CallbackPushes(d)
    PROVE  BuffersKnown'
  <1> USE DEF WaitInv, BufferInv
  <1> HIDE DEF InCallback, KernelCount
  <1>1. BuffersTyped /\ BuffersTyped'
    BY BufferTypes, BufferTypesNext
  <1>2. held \in Nat /\ held' \in Nat /\ Capacity \in Nat
    BY BoundAssumption DEF StateKnown
  <1>3. ASSUME NEW r \in Runner, KernelEnds(d, r) PROVE BuffersKnown'
    <2>1. /\ UNCHANGED <<attempt>> /\ r \in kernels[d]
          /\ kernels' = [kernels EXCEPT ![d] = @ \ {r}]
          /\ callers' = [callers EXCEPT ![d] = @ + 1]
          /\ held' = held + 1
      BY <1>3 DEF KernelEnds
    <2>2. InCallback' = InCallback /\ Reserved' = Reserved
      BY <2>1 DEF InCallback, Reserved, AllocatorOf, At
    <2>3. SumFunction(callers') = SumFunction(callers) + 1
      <3>1. /\ callers'[d] = callers[d] + 1 /\ callers[d] \in Nat
            /\ \A e \in Device \ {d} : callers'[e] = callers[e]
        BY <2>1 DEF StateKnown
      <3>2. SumFunction(callers') = SumFunction(callers) - callers[d] + callers'[d]
        BY <1>1, <3>1, SumOneChanged DEF BuffersTyped
      <3>3. SumFunction(callers) \in Int
        BY <1>1 DEF BuffersTyped
      <3> QED
        BY <3>1, <3>2, <3>3
    <2>4. SumFunction(KernelCount') = SumFunction(KernelCount) - 1
      <3>1. /\ kernels'[d] = kernels[d] \ {r}
            /\ \A e \in Device \ {d} : kernels'[e] = kernels[e]
        BY <2>1 DEF StateKnown
      <3>2. IsFiniteSet(kernels[d]) /\ Cardinality(kernels[d]) \in Nat
        BY RunnersFinite DEF StateKnown
      <3>3. Cardinality(kernels[d] \ {r}) = Cardinality(kernels[d]) - 1
        BY <2>1, <3>2, FS_RemoveElement
      <3>4. /\ KernelCount'[d] = KernelCount[d] - 1 /\ KernelCount[d] \in Nat
            /\ \A e \in Device \ {d} : KernelCount'[e] = KernelCount[e]
        BY <3>1, <3>2, <3>3 DEF KernelCount
      <3>5. SumFunction(KernelCount') = SumFunction(KernelCount) - KernelCount[d] + KernelCount'[d]
        BY <1>1, <3>4, SumOneChanged DEF BuffersTyped
      <3>6. SumFunction(KernelCount) \in Int
        BY <1>1 DEF BuffersTyped
      <3> QED
        BY <3>4, <3>5, <3>6
    <2>5. InCallbacks' = InCallbacks + 1 /\ InCallbacks \in Nat
      BY <1>1, <2>2, <2>3 DEF BuffersTyped
    <2>6. InUse' = InUse
      BY <1>1, <1>2, <2>1, <2>4 DEF BuffersTyped
    <2> QED
      BY <1>2, <2>1, <2>2, <2>5, <2>6 DEF BuffersKnown
  <1>4. CASE Callback(d)
    <2>1. /\ attempt' = [attempt EXCEPT ![d] = [by |-> "callback", stage |-> "lock"]]
          /\ attempt[d] = None /\ UNCHANGED <<kernels, held>> /\ callers[d] > 0
          /\ callers' = [callers EXCEPT ![d] = @ - 1]
      BY <1>4 DEF Callback, DeviceHeld
    <2>2. /\ attempt'[d] = [by |-> "callback", stage |-> "lock"]
          /\ \A e \in Device \ {d} : attempt'[e] = attempt[e]
      BY <2>1 DEF TypesKnown
    <2>3. attempt'[d] # None /\ attempt'[d].stage = "lock"
      <3>1. attempt'[d] \in Attempt
        BY <2>2 DEF Attempt
      <3> QED
        BY <2>2, <3>1, NoneAssumption
    <2>4. InCallback' = InCallback \cup {d} /\ d \notin InCallback
      BY <2>1, <2>2, <2>3 DEF InCallback, At
    <2>5. Cardinality(InCallback') = Cardinality(InCallback) + 1
      BY <1>1, <2>4, FS_AddElement DEF BuffersTyped
    <2>6. SumFunction(callers') = SumFunction(callers) - 1
      <3>1. /\ callers'[d] = callers[d] - 1 /\ callers[d] \in Nat
            /\ \A e \in Device \ {d} : callers'[e] = callers[e]
        BY <2>1 DEF StateKnown
      <3>2. SumFunction(callers') = SumFunction(callers) - callers[d] + callers'[d]
        BY <1>1, <3>1, SumOneChanged DEF BuffersTyped
      <3>3. SumFunction(callers) \in Int
        BY <1>1 DEF BuffersTyped
      <3> QED
        BY <3>1, <3>2, <3>3
    <2>7. InCallbacks' = InCallbacks
      BY <1>1, <2>5, <2>6 DEF BuffersTyped
    <2>8. InUse' = InUse /\ Reserved' = Reserved
      <3>1. \A e \in Device : AllocatorOf(e)' <=> AllocatorOf(e)
        BY <2>1, <2>2, <2>3 DEF AllocatorOf, At
      <3> QED
        BY <2>1, <3>1 DEF InUse, Reserved
    <2> QED
      BY <2>1, <2>7, <2>8 DEF BuffersKnown
  <1>5. CASE CallbackReads(d) \/ CallbackStores(d) \/ CallbackAdds(d)
    <2>1. UNCHANGED <<kernels, callers, held>>
      BY <1>5 DEF CallbackReads, CallbackStores, CallbackAdds, ring
    <2>2. /\ attempt[d] # None /\ attempt[d].stage \in {"lock", "store", "add"}
          /\ attempt'[d].stage \in {"store", "add", "push"} /\ attempt'[d] \in Attempt
          /\ \A e \in Device \ {d} : attempt'[e] = attempt[e]
      <3>1. CASE CallbackReads(d)
        <4>1. PICK rate \in Measured(d) :
                 attempt' = [attempt EXCEPT ![d] =
                     [by |-> "callback", stage |-> "store", report |-> ReportOf(d, rate)]]
          BY <3>1 DEF CallbackReads
        <4>2. [by |-> "callback", stage |-> "store", report |-> ReportOf(d, rate)] \in Attempt
          BY ReportTypes DEF Attempt
        <4> QED
          BY <3>1, <4>1, <4>2 DEF CallbackReads, At, TypesKnown
      <3>2. CASE CallbackStores(d)
        <4>1. attempt[d] # None /\ attempt[d].stage = "store"
          BY <3>2 DEF CallbackStores, At
        <4>2. attempt[d] \in [by : {"callback"}, stage : {"store", "add"}, report : Report]
          BY <4>1, AttemptKinds DEF Attempt
        <4>3. attempt' = [attempt EXCEPT ![d].stage = "add"]
          BY <3>2 DEF CallbackStores
        <4>4. [attempt[d] EXCEPT !.stage = "add"] \in Attempt
          BY <4>2 DEF Attempt
        <4> QED
          BY <4>1, <4>2, <4>3, <4>4 DEF TypesKnown
      <3>3. CASE CallbackAdds(d)
        <4>1. attempt' = [attempt EXCEPT ![d] = [by |-> "callback", stage |-> "push"]]
          BY <3>3 DEF CallbackAdds
        <4>2. [by |-> "callback", stage |-> "push"] \in Attempt
          BY DEF Attempt
        <4> QED
          BY <3>3, <4>1, <4>2 DEF CallbackAdds, At, TypesKnown
      <3> QED
        BY <1>5, <3>1, <3>2, <3>3
    <2>3. attempt'[d] # None
      BY <2>2, NoneAssumption
    <2>4. InCallback' = InCallback
      BY <2>2, <2>3 DEF InCallback, At
    <2>5. \A e \in Device : AllocatorOf(e)' => AllocatorOf(e)
      BY <2>2 DEF AllocatorOf, At
    <2> QED
      BY <2>1, <2>4, <2>5, SameBuffers
  <1>6. CASE CallbackPushes(d)
    <2>1. /\ attempt' = [attempt EXCEPT ![d] = Trying(d, "callback")]
          /\ attempt[d] # None /\ attempt[d].stage = "push"
          /\ UNCHANGED <<kernels, callers, held>>
      BY <1>6 DEF CallbackPushes, At, ring
    <2>2. /\ attempt'[d] # None => attempt'[d].stage = "ring"
          /\ \A e \in Device \ {d} : attempt'[e] = attempt[e]
      BY <2>1, TryingTypes DEF TypesKnown
    <2>3. InCallback' = InCallback \ {d} /\ d \in InCallback
      BY <2>1, <2>2 DEF InCallback, At
    <2>4. Cardinality(InCallback') = Cardinality(InCallback) - 1
      BY <1>1, <2>3, FS_RemoveElement DEF BuffersTyped
    <2>5. InCallbacks' = InCallbacks - 1 /\ InCallbacks \in Nat
      BY <1>1, <2>1, <2>4 DEF BuffersTyped
    <2>6. InUse' = InUse /\ Reserved' = Reserved
      <3>1. \A e \in Device : AllocatorOf(e)' <=> AllocatorOf(e)
        BY <2>1, <2>2 DEF AllocatorOf, At
      <3> QED
        BY <2>1, <3>1 DEF InUse, Reserved
    <2> QED
      BY <1>2, <2>1, <2>5, <2>6 DEF BuffersKnown
  <1> QED
    BY <1>3, <1>4, <1>5, <1>6

LEMMA BufferTry ==
    ASSUME WaitInv, BufferInv, StateKnown', NEW d \in Device, Try(d)
    PROVE  BuffersKnown'
  <1> USE DEF WaitInv, BufferInv
  <1> HIDE DEF InCallback, KernelCount
  <1>1. BuffersTyped /\ BuffersTyped'
    BY BufferTypes, BufferTypesNext
  <1>2. held \in Nat /\ held' \in Nat /\ Capacity \in Nat
    BY BoundAssumption DEF StateKnown
  <1>3. attempt[d] # None /\ attempt[d].stage \in {"ring", "generate", "alloc"}
    BY DEF Try, TryAborts, TrySkips, TakeAllocator, GenerateJob, Allocate, At, Idling
  <1>4. attempt[d] \in [by : {"callback", "set", "free"},
                        stage : {"ring", "generate", "alloc"},
                        runner : Runner, f : Fraction]
    BY <1>3, AttemptKinds
  <1>5. CASE TryAborts(d)
    <2>1. UNCHANGED <<attempt, kernels, callers, held>>
      BY <1>5 DEF TryAborts, ring
    <2> QED
      BY <2>1, SameBuffers DEF InCallback, AllocatorOf, At
  <1>6. CASE TrySkips(d)
    <2>1. /\ UNCHANGED <<kernels, callers, held>>
          /\ attempt' = [attempt EXCEPT ![d] = NextRunner(d)]
      BY <1>6 DEF TrySkips, ring
    <2>2. /\ attempt'[d] # None => attempt'[d].stage = "ring"
          /\ \A e \in Device \ {d} : attempt'[e] = attempt[e]
      BY <1>3, <2>1, NextRunnerTypes DEF TypesKnown
    <2>3. InCallback' = InCallback
      BY <1>3, <2>2, SameSide
    <2>4. \A e \in Device : AllocatorOf(e)' => AllocatorOf(e)
      BY <2>2 DEF AllocatorOf, At
    <2> QED
      BY <2>1, <2>3, <2>4, SameBuffers
  <1>7. CASE TakeAllocator(d)
    <2>1. PICK stage \in {"generate", "alloc"} :
             attempt' = [attempt EXCEPT ![d].stage = stage]
      BY <1>7 DEF TakeAllocator
    <2>2. UNCHANGED <<kernels, callers, held>> /\ ~(InUse >= Capacity)
      BY <1>7 DEF TakeAllocator, ring, Full
    <2>3. /\ attempt'[d].stage = stage
          /\ \A e \in Device \ {d} : attempt'[e] = attempt[e]
      BY <1>4, <2>1 DEF TypesKnown
    <2>4. InCallback' = InCallback
      BY <1>3, <2>3, SameSide
    <2>5. InCallbacks' = InCallbacks /\ InUse' = InUse /\ InUse \in Nat
      <3>1. InUse' = InUse
        BY <2>2 DEF InUse
      <3> QED
        BY <1>1, <1>2, <2>2, <2>4, <3>1 DEF BuffersTyped
    <2>6. InUse + 1 <= Capacity
      BY <1>2, <2>2, <2>5
    <2>7. Reserved' \in {0, 1}
      BY DEF Reserved
    <2>8. InUse + Reserved' <= Capacity
      <3>1. CASE Reserved' = 0
        <4>1. InUse + 0 = InUse
          BY <2>5
        <4>2. InUse <= Capacity
          BY <1>2, <2>5, <2>6
        <4> QED
          BY <3>1, <4>1, <4>2
      <3>2. CASE Reserved' = 1
        BY <3>2, <2>6
      <3> QED
        BY <2>7, <3>1, <3>2
    <2> QED
      BY <2>2, <2>5, <2>8 DEF BuffersKnown
  <1>8. CASE GenerateJob(d)
    <2>1. /\ UNCHANGED <<kernels, callers, held>> /\ AllocatorOf(d)
          /\ attempt' = [attempt EXCEPT ![d].stage = "alloc"]
      BY <1>8 DEF GenerateJob, ring, AllocatorOf
    <2>2. /\ attempt'[d].stage = "alloc"
          /\ \A e \in Device \ {d} : attempt'[e] = attempt[e]
      BY <1>4, <2>1 DEF TypesKnown
    <2>3. InCallback' = InCallback
      BY <1>3, <2>2, SameSide
    <2>4. \A e \in Device : AllocatorOf(e)' => AllocatorOf(e)
      BY <2>1, <2>2 DEF AllocatorOf, At
    <2> QED
      BY <2>1, <2>3, <2>4, SameBuffers
  <1>9. CASE Allocate(d)
    <2>1. /\ UNCHANGED <<callers, held>> /\ AllocatorOf(d)
          /\ attempt' = [attempt EXCEPT ![d] = NextRunner(d)]
          /\ \/ kernels' = kernels
             \/ kernels' = [kernels EXCEPT ![d] = @ \cup {attempt[d].runner}]
      BY <1>9 DEF Allocate, ring, AllocatorOf
    <2>2. /\ attempt'[d] # None => attempt'[d].stage = "ring"
          /\ \A e \in Device \ {d} : attempt'[e] = attempt[e]
      BY <1>3, <2>1, NextRunnerTypes DEF TypesKnown
    <2>3. InCallback' = InCallback
      BY <1>3, <2>2, SameSide
    <2>4. Reserved = 1 /\ Reserved' = 0
      <3>1. \A e \in Device : AllocatorOf(e) => e = d
        BY <2>1 DEF RingKnown
      <3>2. \A e \in Device : ~AllocatorOf(e)'
        BY <2>2, <3>1 DEF AllocatorOf, At
      <3> QED
        BY <2>1, <3>2 DEF Reserved
    <2>5. SumFunction(KernelCount') <= SumFunction(KernelCount) + 1
      <3>1. CASE kernels' = kernels
        <4>1. KernelCount' = KernelCount
          BY <3>1 DEF KernelCount
        <4> QED
          BY <1>1, <4>1 DEF BuffersTyped
      <3>2. CASE kernels' = [kernels EXCEPT ![d] = @ \cup {attempt[d].runner}]
        <4>1. /\ kernels'[d] = kernels[d] \cup {attempt[d].runner}
              /\ \A e \in Device \ {d} : kernels'[e] = kernels[e]
          BY <3>2 DEF StateKnown
        <4>2. IsFiniteSet(kernels[d]) /\ Cardinality(kernels[d]) \in Nat
          BY RunnersFinite DEF StateKnown
        <4>3. Cardinality(kernels[d] \cup {attempt[d].runner})
                 \in {Cardinality(kernels[d]), Cardinality(kernels[d]) + 1}
          BY <4>2, FS_AddElement
        <4>4. /\ KernelCount'[d] \in {KernelCount[d], KernelCount[d] + 1}
              /\ KernelCount[d] \in Nat
              /\ \A e \in Device \ {d} : KernelCount'[e] = KernelCount[e]
          BY <4>1, <4>2, <4>3 DEF KernelCount
        <4>5. SumFunction(KernelCount')
                 = SumFunction(KernelCount) - KernelCount[d] + KernelCount'[d]
          BY <1>1, <4>4, SumOneChanged DEF BuffersTyped
        <4>6. SumFunction(KernelCount) \in Int
          BY <1>1 DEF BuffersTyped
        <4> QED
          BY <4>4, <4>5, <4>6
      <3> QED
        BY <2>1, <3>1, <3>2
    <2>6. InCallbacks' = InCallbacks
      BY <1>1, <2>1, <2>3 DEF BuffersTyped
    <2>7. InUse' + 0 <= Capacity
      <3>1. InUse' <= InUse + 1 /\ InUse \in Nat /\ InUse' \in Nat
        BY <1>1, <1>2, <2>1, <2>5 DEF BuffersTyped
      <3>2. InUse + 1 <= Capacity
        BY <2>4 DEF BuffersKnown
      <3>3. InUse' <= Capacity
        BY <1>2, <3>1, <3>2
      <3> QED
        BY <3>1, <3>3
    <2> QED
      BY <2>1, <2>4, <2>6, <2>7 DEF BuffersKnown
  <1> QED
    BY <1>5, <1>6, <1>7, <1>8, <1>9 DEF Try

LEMMA BufferNext == WaitInv /\ WaitInv' /\ BufferInv /\ [Next]_vars => BufferInv'
  <1> SUFFICES ASSUME WaitInv, WaitInv', BufferInv, [Next]_vars
               PROVE  BufferInv'
    OBVIOUS
  <1>1. CASE UNCHANGED vars
    <2>1. UNCHANGED <<measured, active, kernels, callers, held, stops, failed, aborted,
                      raced, attempt>>
      BY <1>1 DEF vars, rates, ring, rest
    <2>2. StateKnown'
      BY <2>1 DEF BufferInv, StateKnown
    <2>3. BuffersKnown'
      BY <2>1, SameBuffers DEF InCallback, AllocatorOf, At
    <2> QED
      BY <2>2, <2>3 DEF BufferInv
  <1>2. CASE Next
    <2>1. StateKnown'
      BY <1>2, StateNext
    <2> SUFFICES BuffersKnown'
      BY <2>1 DEF BufferInv
    <2>2. ASSUME NEW d \in Device,
                 \/ \E r \in Runner : KernelEnds(d, r)
                 \/ Callback(d) \/ CallbackReads(d) \/ CallbackStores(d) \/ CallbackAdds(d)
                 \/ CallbackPushes(d)
          PROVE  BuffersKnown'
      BY <2>1, <2>2, BufferCallbacks
    <2>3. ASSUME NEW d \in Device, Try(d) PROVE BuffersKnown'
      BY <2>1, <2>3, BufferTry
    <2>4. ASSUME NEW d \in Device, attempt[d] = None, NEW who \in {"set", "free"},
                 attempt' = [attempt EXCEPT ![d] = Trying(d, who)],
                 UNCHANGED <<kernels, callers, held>>
          PROVE  BuffersKnown'
      <3>1. /\ attempt'[d] # None => attempt'[d].stage = "ring"
            /\ \A e \in Device \ {d} : attempt'[e] = attempt[e]
        BY <2>4, TryingTypes DEF WaitInv, TypesKnown
      <3>2. InCallback' = InCallback
        BY <2>4, <3>1, SameSide
      <3>3. \A e \in Device : AllocatorOf(e)' => AllocatorOf(e)
        BY <3>1 DEF AllocatorOf, At
      <3> QED
        BY <2>4, <3>2, <3>3, SameBuffers
    <2>5. CASE Coordinate \/ SetsWork
      <3>1. UNCHANGED <<kernels, callers, held>>
        BY <2>5 DEF Coordinate, BeginPrint, PrintReads, PrintStores, HashratesReturns,
              EndPrint, Stop, StopDevice, StopReturns, UpdateFraction, SetsWork, SetWork,
              NewGenerator, Activate, Start, SetWorkReturns, ring
      <3>2. CASE Start
        <4>1. /\ attempt' = [attempt EXCEPT ![setting.at] = Trying(setting.at, "set")]
              /\ attempt[setting.at] = None /\ setting.at \in Device
          BY <3>2 DEF Start, DeviceHeld, WaitInv, TypesKnown
        <4> QED
          BY <2>4, <3>1, <4>1
      <3>3. CASE ~Start
        <4>1. UNCHANGED attempt
          BY <2>5, <3>3 DEF Coordinate, BeginPrint, PrintReads, PrintStores,
                HashratesReturns, EndPrint, Stop, StopDevice, StopReturns, UpdateFraction,
                SetsWork, SetWork, NewGenerator, Activate, SetWorkReturns
        <4> QED
          BY <3>1, <4>1, SameBuffers DEF InCallback, AllocatorOf, At
      <3> QED
        BY <3>2, <3>3
    <2>6. CASE AllocationPossible
      <3>1. /\ UNCHANGED <<kernels, callers, held>>
            /\ freeing \in Device /\ attempt[freeing] = None
            /\ attempt' = [attempt EXCEPT ![freeing] = Trying(freeing, "free")]
        BY <2>6 DEF AllocationPossible, DeviceHeld
      <3> QED
        BY <2>4, <3>1
    <2>7. CASE FreeReturns
      <3>1. UNCHANGED <<attempt, kernels, callers, held>>
        BY <2>7 DEF FreeReturns
      <3> QED
        BY <3>1, SameBuffers DEF InCallback, AllocatorOf, At
    <2>8. CASE DropBuffer
      <3>1. UNCHANGED <<attempt, kernels, callers>> /\ held > InCallbacks /\ held' = held - 1
        BY <2>8 DEF DropBuffer
      <3>2. /\ InCallback' = InCallback /\ KernelCount' = KernelCount
            /\ Reserved' = Reserved
        BY <3>1 DEF InCallback, KernelCount, Reserved, AllocatorOf, At
      <3> HIDE DEF InCallback, KernelCount
      <3>3. BuffersTyped /\ BuffersTyped'
        BY <2>1, BufferTypes, BufferTypesNext DEF BufferInv
      <3>4. held \in Nat /\ Capacity \in Nat
        BY BoundAssumption DEF BufferInv, StateKnown
      <3>5. /\ InCallbacks' = InCallbacks /\ InCallbacks \in Nat
            /\ InUse' = InUse - 1 /\ InUse \in Nat
        BY <3>1, <3>2, <3>3, <3>4 DEF BuffersTyped
      <3>6. Reserved \in {0, 1}
        BY DEF Reserved
      <3>7. InUse + Reserved <= Capacity
        BY DEF BufferInv, BuffersKnown
      <3>8. (InUse - 1) + Reserved <= Capacity
        <4>1. CASE Reserved = 0
          BY <3>4, <3>5, <3>7, <4>1
        <4>2. CASE Reserved = 1
          BY <3>4, <3>5, <3>7, <4>2
        <4> QED
          BY <3>6, <4>1, <4>2
      <3>9. InCallbacks <= held - 1
        BY <3>1, <3>4, <3>5
      <3> QED
        BY <3>1, <3>2, <3>5, <3>8, <3>9 DEF BuffersKnown
    <2> QED
      BY <1>2, <2>1, <2>2, <2>3, <2>5, <2>6, <2>7, <2>8 DEF Next
  <1> QED
    BY <1>1, <1>2

LEMMA BufferInit == Init => BufferInv
  <1> SUFFICES ASSUME Init PROVE BufferInv
    OBVIOUS
  <1>1. StateKnown
    <2>1. stops \in 0 .. MaxStops
      BY BoundAssumption DEF Init
    <2>2. failed = FALSE /\ aborted = FALSE /\ raced = FALSE
      BY DEF Init
    <2>3. failed \in BOOLEAN /\ aborted \in BOOLEAN /\ raced \in BOOLEAN
      BY <2>2, Zenon
    <2>4. /\ measured \in SUBSET Device /\ active \in SUBSET Device
          /\ kernels \in [Device -> SUBSET Runner]
          /\ callers \in [Device -> Nat] /\ held \in Nat
      BY DEF Init
    <2> QED
      BY <2>1, <2>3, <2>4 DEF StateKnown
  <1>2. InCallback = {} /\ Reserved = 0
    BY DEF Init, InCallback, Reserved, AllocatorOf, At
  <1>3. Cardinality(InCallback) = 0
    BY <1>2, FS_EmptySet
  <1>4. \A d \in Device : KernelCount[d] = 0 /\ callers[d] = 0
    BY FS_EmptySet DEF Init, KernelCount
  <1>5. BuffersTyped
    BY <1>1, BufferTypes
  <1> HIDE DEF KernelCount, InCallback
  <1>6. KernelCount = prev /\ callers = prev /\ total = 0 /\ held = 0
    BY <1>4, <1>5 DEF BuffersTyped, Init
  <1>7. SumFunction(prev) = 0
    <2>1. \A d \in Device : ~At(d, "add")
      BY DEF Init, At
    <2>2. Pending = prev
      BY <2>1 DEF Pending, Init
    <2>3. DOMAIN prev = Device /\ \A d \in Device : prev[d] = 0
      BY DEF Init
    <2> QED
      BY <2>3, SumOfZeros
  <1> QED
    BY <1>1, <1>2, <1>3, <1>5, <1>6, <1>7, BoundAssumption
    DEF BufferInv, BuffersKnown, BuffersTyped

LEMMA BufferHolds == Spec => []BufferInv
  BY BufferInit, BufferNext, WaitHolds, PTL DEF Spec

(* Types, and the bound of the ring: as long as room is reserved for the   *)
(* Allocator's range, kernels, callbacks and kept results never need more  *)
(* Buffers than fit, however many devices and threads there are.           *)
THEOREM TypeOKHolds == Spec => []TypeOK
  <1>1. WaitInv /\ BufferInv => TypeOK
    <2> SUFFICES ASSUME WaitInv, BufferInv PROVE TypeOK
      OBVIOUS
    <2>1. BuffersTyped
      BY BufferTypes DEF BufferInv
    <2>2. held \in Nat /\ Capacity \in Nat /\ callers \in [Device -> Nat]
      BY BoundAssumption DEF BufferInv, StateKnown
    <2>3. InUse + Reserved <= Capacity /\ InCallbacks <= held
      BY DEF BufferInv, BuffersKnown
    <2>4. held <= InUse /\ InUse \in Nat
      BY <2>1, <2>2 DEF BuffersTyped
    <2>5. held <= Capacity
      <3>1. CASE Reserved = 0
        BY <2>2, <2>3, <2>4, <3>1
      <3>2. CASE Reserved = 1
        BY <2>2, <2>3, <2>4, <3>2
      <3> QED
        BY <3>1, <3>2 DEF Reserved
    <2>6. \A d \in Device : callers[d] \in 0 .. Capacity
      <3> SUFFICES ASSUME NEW d \in Device PROVE callers[d] \in 0 .. Capacity
        OBVIOUS
      <3>1. callers[d] \in Nat /\ callers[d] <= SumFunction(callers)
        BY <2>1, <2>2 DEF BuffersTyped
      <3>2. SumFunction(callers) <= InCallbacks /\ InCallbacks \in Nat
            /\ SumFunction(callers) \in Nat
        BY <2>1 DEF BuffersTyped
      <3> QED
        BY <2>2, <2>3, <2>5, <3>1, <3>2
    <2>7. callers \in [Device -> 0 .. Capacity] /\ held \in 0 .. Capacity
      BY <2>2, <2>5, <2>6
    <2> QED
      BY <2>7 DEF WaitInv, TypesKnown, BufferInv, StateKnown, TypeOK
  <1> QED
    BY WaitHolds, BufferHolds, <1>1, PTL
===============================================================================
