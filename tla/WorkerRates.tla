---------------------------- MODULE WorkerRates -----------------------------
(***************************************************************************)
(* How fast the CPU side is (VerusPool::process and AllCount of            *)
(* verus_pool.{hpp,cpp}, VerusTiming and AverageEstimator of               *)
(* cpu/efficiency_estimator.hpp).  A worker that has mined reports how     *)
(* many candidates it processed in which time.  The coordinator takes the  *)
(* reports when it wakes up; once every worker has reported it adds the    *)
(* rates up, and the total becomes the rate of the job queue and of the    *)
(* GPU hasher, which compares it with the GPUs' rate.                      *)
(***************************************************************************)
EXTENDS Integers, FiniteSets, SequencesExt

CONSTANTS
    Worker,         \* indices of the workers
    Second,         \* time units of a second (10^6 us)
    MinDuration,    \* shortest time taken into account (20 ms)
    MinProcessed,   \* fewest candidates taken into account (100)
    Window,         \* totals the estimator keeps (10)
    Timings,        \* what a report can hold, as [duration, processed]
    MaxReports      \* bound: reports of a behaviour

(* A call of mine is too short to process MinProcessed candidates at less  *)
(* than one a second: batches are sized for a tenth of a second.           *)
ASSUME RateAssumption ==
    /\ IsFiniteSet(Worker) /\ Worker # {}
    /\ {Second, MinDuration, MinProcessed, Window} \subseteq Nat \ {0}
    /\ MaxReports \in Nat
    /\ \A t \in Timings : /\ t.duration \in Nat /\ t.processed \in Nat
                          /\ t.duration <= MinProcessed * Second

VARIABLES
    reports,     \* events of the pool
    taken,       \* the events process has taken and not handled yet
    timings,     \* AllCount: a rate per worker, or 0
    count,       \* AllCount: how many there are
    fresh,       \* AllCount: there has been no total yet
    vals, sum,   \* AverageEstimator
    queueRate,   \* the rate of the job queue, 0 before the first
    verusRate,   \* verushashrate of the hasher, 0 before the first
    reported,    \* history: reports sent
    since,       \* history: rates reported since the last total
    round        \* history: the rates reported for the last total

rateVars == <<timings, count, fresh, vals, sum, queueRate, verusRate, since, round>>
workerVars == <<reports, taken, reported, rateVars>>

InitRates ==
    /\ reports = <<>> /\ taken = <<>>
    /\ timings = [w \in Worker |-> 0] /\ count = 0 /\ fresh = TRUE
    /\ vals = <<>> /\ sum = 0
    /\ queueRate = 0 /\ verusRate = 0
    /\ reported = 0 /\ since = <<>> /\ round = <<>>

(* trace_verus, by the worker's thread.                                    *)
Trace(w, t) ==
    /\ reported < MaxReports
    /\ reports' = Append(reports, [worker |-> w, timing |-> t])
    /\ reported' = reported + 1
    /\ UNCHANGED <<taken, rateVars>>

(* process takes the events under the mutex ...                            *)
TakeReports ==
    /\ taken = <<>> /\ reports # <<>>
    /\ taken' = reports /\ reports' = <<>>
    /\ UNCHANGED <<reported, rateVars>>

(* ... and handles them without it.                                        *)
PerSecond(t) == (t.processed * Second) \div t.duration
Counts(t) == t.duration >= MinDuration /\ t.processed >= MinProcessed

Ignore ==
    /\ taken # <<>> /\ ~Counts(Head(taken).timing)
    /\ taken' = Tail(taken)
    /\ UNCHANGED <<reports, reported, rateVars>>

(* Faulty: a later report of a worker replaces its earlier one, and is     *)
(* counted again.                                                          *)
SetTimingAgain(w, rate) ==
    LET t == [timings EXCEPT ![w] = rate]
    IN  [timings |-> t, count |-> count + 1, complete |-> count + 1 = Cardinality(Worker)]

(* AllCount::set_timing: the first report of each worker counts.           *)
SetTiming(w, rate) ==
    IF timings[w] # 0
    THEN [timings |-> timings, count |-> count, complete |-> FALSE]
    ELSE [timings |-> [timings EXCEPT ![w] = rate], count |-> count + 1,
          complete |-> count + 1 = Cardinality(Worker)]

(* AverageEstimator::push_hashrate                                         *)
PushRate(rate) ==
    LET full == Len(vals) = Window
    IN  /\ vals' = Append(IF full THEN Tail(vals) ELSE vals, rate)
        /\ sum' = sum + rate - (IF full THEN Head(vals) ELSE 0)

HandleReport ==
    /\ taken # <<>> /\ Counts(Head(taken).timing)
    /\ taken' = Tail(taken)
    /\ LET w    == Head(taken).worker
           rate == PerSecond(Head(taken).timing)
           a    == SetTiming(w, rate)
       IN  /\ IF a.complete
              THEN /\ timings' = [v \in Worker |-> 0] /\ count' = 0 /\ fresh' = FALSE
                   /\ PushRate(SumFunction(a.timings))
                   /\ queueRate' = SumFunction(a.timings)
                   /\ verusRate' = SumFunction(a.timings)
                   /\ round' = Append(since, [worker |-> w, rate |-> rate])
                   /\ since' = <<>>
              ELSE /\ timings' = a.timings /\ count' = a.count
                   /\ since' = Append(since, [worker |-> w, rate |-> rate])
                   /\ UNCHANGED <<fresh, vals, sum, queueRate, verusRate, round>>
    /\ UNCHANGED <<reports, reported>>

NextRates ==
    \/ \E w \in Worker, t \in Timings : Trace(w, t)
    \/ TakeReports \/ Ignore \/ HandleReport

SpecRates == InitRates /\ [][NextRates]_workerVars

(***************************************************************************)
(* Properties                                                              *)
(***************************************************************************)
(* Each total is the sum of exactly one report of every worker, the first  *)
(* since the previous total, and is complete as soon as the last worker    *)
(* has reported; it is never zero (assert(hr.val != 0)), and the           *)
(* estimator's sum is that of the totals it keeps.                         *)
FirstOf(w, log) == SelectInSeq(log, LAMBDA e : e.worker = w)
RoundsAddUp ==
    /\ round # <<>> =>
          /\ \A w \in Worker : FirstOf(w, round) # 0
          /\ \E w \in Worker : FirstOf(w, round) = Len(round)
          /\ verusRate = SumFunction([w \in Worker |-> round[FirstOf(w, round)].rate])
          /\ verusRate > 0 /\ queueRate = verusRate
    /\ sum = SumFunction(vals)
    /\ Len(vals) <= Window
=============================================================================
