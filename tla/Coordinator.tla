----------------------------- MODULE Coordinator -----------------------------
(***************************************************************************)
(* The coordinator's thread (MiningCoordinator of device_pool.cpp), mining *)
(* for a node or for a pool.                                               *)
(*                                                                         *)
(* It handles what the CPU workers have found and, for a node, polls it    *)
(* twice a second for a header to mine.  Both are blocking calls: a found  *)
(* block is posted again and again until the node answers.                 *)
(*                                                                         *)
(* GPU and CPU are reduced to the set of jobs with candidates on their way *)
(* (in a kernel, in an event for the coordinator or in the CPU's queue).   *)
(* Events by which the CPU reports its rate change nothing here.           *)
(***************************************************************************)
EXTENDS StratumConnection

CONSTANTS
    Parents,      \* blocks that can be the tip of the node's chain
    MaxChanges,   \* bound: changes of the node's header
    MaxOutages,   \* bound: times the node goes down
    MaxInFlight   \* bound: jobs with candidates on their way

VARIABLES
    mode,           \* "node" or "pool", chosen on the command line
    node,           \* the node: whether it is up, and the header it gives
    changes, outages,
    at,             \* what the thread does
    events, batch,  \* events and tmpEvents: jobs for which a hash was found
    posting,        \* the block that is being posted
    needsPoll,
    due,            \* nextPoll has passed
    prevHash, currentHeader, cleanIndex,
    candidates, found,
    lastPoll,       \* history: the outcome of the last poll
    stoppedAt       \* history: currentHeader when stop_mining was called

nodeVars  == <<node, changes, outages>>
loopVars  == <<at, events, batch, posting, needsPoll, due>>
pollVars  == <<prevHash, currentHeader, cleanIndex, lastPoll, stoppedAt>>
minerVars == <<candidates, found>>
vars == <<stratumVars, mode, nodeVars, loopVars, pollVars, minerVars>>

Header  == [parent : Parents, body : 1 .. 2]
NodeJob == [header : Header, clean : Nat]
Job     == NodeJob \cup StratumWork

ASSUME NoneAssumption == None \notin Job

TypeOK ==
    /\ StratumTypeOK
    /\ work \in Job \cup {None}
    /\ mode \in {"node", "pool"}
    /\ node.up \in BOOLEAN /\ node.header \in Header
    /\ at \in {"wait", "handle", "post", "poll"}
    /\ events \in Seq(Job) /\ batch \in Seq(Job) /\ posting \in Job \cup {None}
    /\ needsPoll \in BOOLEAN /\ due \in BOOLEAN
    /\ prevHash \in Parents \cup {None} /\ currentHeader \in Header \cup {None}
    /\ cleanIndex \in Nat
    /\ candidates \subseteq Job /\ found \in 0 .. MaxFound
    /\ lastPoll \in {"none", "ok", "failed"} /\ stoppedAt \in Header \cup {None}

Init ==
    /\ InitStratum
    /\ mode \in {"node", "pool"}
    /\ \E h \in Header : node = [up |-> TRUE, header |-> h]
    /\ changes = 0 /\ outages = 0
    /\ at = "wait" /\ events = <<>> /\ batch = <<>> /\ posting = None
    /\ needsPoll = FALSE /\ due = FALSE
    /\ prevHash = None /\ currentHeader = None /\ cleanIndex = 0
    /\ candidates = {} /\ found = 0
    /\ lastPoll = "none" /\ stoppedAt = None

(***************************************************************************)
(* The node, outside of the program: its tip and its template change, it   *)
(* goes down and comes back.                                               *)
(***************************************************************************)
NodeChanges ==
    /\ mode = "node" /\ changes < MaxChanges
    /\ \E h \in Header \ {node.header} : node' = [node EXCEPT !.header = h]
    /\ changes' = changes + 1
    /\ UNCHANGED <<stratumVars, mode, outages, loopVars, pollVars, minerVars>>

NodeDown ==
    /\ mode = "node" /\ node.up /\ outages < MaxOutages
    /\ node' = [node EXCEPT !.up = FALSE]
    /\ outages' = outages + 1
    /\ UNCHANGED <<stratumVars, mode, changes, loopVars, pollVars, minerVars>>

NodeUp ==
    /\ ~node.up
    /\ node' = [node EXCEPT !.up = TRUE]
    /\ UNCHANGED <<stratumVars, mode, changes, outages, loopVars, pollVars, minerVars>>

(***************************************************************************)
(* GPU and CPU                                                             *)
(***************************************************************************)
StartKernel ==
    /\ work # None /\ work \notin candidates
    /\ Cardinality(candidates) < MaxInFlight
    /\ candidates' = candidates \cup {work}
    /\ UNCHANGED <<stratumVars, mode, nodeVars, loopVars, pollVars, found>>

(* push_janus_mined                                                        *)
Find(j) ==
    /\ found < MaxFound
    /\ found' = found + 1
    /\ events' = Append(events, j)
    /\ UNCHANGED <<stratumVars, mode, nodeVars, at, batch, posting, needsPoll, due,
                   pollVars, candidates>>

Finish(j) ==
    /\ candidates' = candidates \ {j}
    /\ UNCHANGED <<stratumVars, mode, nodeVars, loopVars, pollVars, found>>

(***************************************************************************)
(* The loop of run                                                         *)
(***************************************************************************)
PollTime ==
    /\ ~due
    /\ due' = TRUE
    /\ UNCHANGED <<stratumVars, mode, nodeVars, at, events, batch, posting, needsPoll,
                   pollVars, minerVars>>

(* Faulty: the thread does not look at the time.                           *)
WakeForEvents ==
    /\ at = "wait" /\ events # <<>>
    /\ batch' = events /\ events' = <<>>
    /\ needsPoll' = (needsPoll \/ due)
    /\ at' = "handle"
    /\ UNCHANGED <<stratumVars, mode, nodeVars, posting, due, pollVars, minerVars>>

Wake ==
    /\ at = "wait" /\ (events # <<>> \/ due)
    /\ batch' = events /\ events' = <<>>
    /\ needsPoll' = (needsPoll \/ due)
    /\ at' = "handle"
    /\ UNCHANGED <<stratumVars, mode, nodeVars, posting, due, pollVars, minerVars>>

HandleBlock ==
    /\ at = "handle" /\ mode = "node" /\ batch # <<>>
    /\ batch' = Tail(batch)
    /\ IF Head(batch).header.parent # prevHash
       THEN UNCHANGED <<at, posting>>
       ELSE at' = "post" /\ posting' = Head(batch)
    /\ UNCHANGED <<stratumVars, mode, nodeVars, events, needsPoll, due, pollVars, minerVars>>

(* submit_block returns when the node has answered, whatever it says.      *)
Posted ==
    /\ at = "post" /\ node.up
    /\ at' = "handle" /\ posting' = None
    /\ needsPoll' = TRUE
    /\ UNCHANGED <<stratumVars, mode, nodeVars, events, batch, due, pollVars, minerVars>>

HandleShare ==
    /\ at = "handle" /\ mode = "pool" /\ batch # <<>> /\ submitting = None
    /\ batch' = Tail(batch)
    /\ BeginSubmit
    /\ UNCHANGED <<connVars, data, work, mode, nodeVars, at, events, posting,
                   needsPoll, due, pollVars, minerVars>>

Submit ==
    /\ LockServer \/ WriteSubmission
    /\ UNCHANGED <<mode, nodeVars, loopVars, pollVars, minerVars>>

HandledAll ==
    /\ at = "handle" /\ batch = <<>> /\ submitting = None
    /\ at' = IF needsPoll THEN "poll" ELSE "wait"
    /\ UNCHANGED <<stratumVars, mode, nodeVars, events, batch, posting, needsPoll,
                   due, pollVars, minerVars>>

(***************************************************************************)
(* poll                                                                    *)
(***************************************************************************)
(* Faulty: the job is made before the index is counted up.                 *)
AssignWorkBeforeCounting(h) ==
    /\ prevHash' = h.parent
    /\ cleanIndex' = IF h.parent # prevHash THEN cleanIndex + 1 ELSE cleanIndex
    /\ IF currentHeader = h THEN UNCHANGED <<currentHeader, work>>
       ELSE currentHeader' = h /\ work' = [header |-> h, clean |-> cleanIndex]

(* Faulty: only a new tip makes new work.                                  *)
AssignWorkForTip(h) ==
    /\ prevHash' = h.parent
    /\ cleanIndex' = IF h.parent # prevHash THEN cleanIndex + 1 ELSE cleanIndex
    /\ currentHeader' = h
    /\ IF h.parent = prevHash THEN UNCHANGED work
       ELSE work' = [header |-> h, clean |-> cleanIndex']

AssignWork(h) ==
    /\ prevHash' = h.parent
    /\ cleanIndex' = IF h.parent # prevHash THEN cleanIndex + 1 ELSE cleanIndex
    /\ IF currentHeader = h THEN UNCHANGED <<currentHeader, work>>
       ELSE currentHeader' = h /\ work' = [header |-> h, clean |-> cleanIndex']

(* currentHeader is not forgotten.                                         *)
StopMining ==
    /\ work' = None
    /\ UNCHANGED <<prevHash, currentHeader, cleanIndex>>

PollNode ==
    /\ at = "poll" /\ mode = "node"
    /\ at' = "wait" /\ needsPoll' = FALSE /\ due' = FALSE
    /\ IF node.up
       THEN AssignWork(node.header) /\ lastPoll' = "ok" /\ UNCHANGED stoppedAt
       ELSE StopMining /\ lastPoll' = "failed" /\ stoppedAt' = currentHeader
    /\ UNCHANGED <<connVars, data, submitting, mode, nodeVars, events, batch, posting,
                   minerVars>>

(* For a pool, poll returns before it sets nextPoll: the thread does not   *)
(* wait again once that time has passed.                                   *)
PollPool ==
    /\ at = "poll" /\ mode = "pool"
    /\ at' = "wait"
    /\ UNCHANGED <<stratumVars, mode, nodeVars, events, batch, posting, needsPoll, due,
                   pollVars, minerVars>>

NetworkStep ==
    /\ mode = "pool" /\ Network
    /\ UNCHANGED <<mode, nodeVars, loopVars, pollVars, minerVars>>

Loop == Wake \/ HandleBlock \/ Posted \/ HandleShare \/ Submit \/ HandledAll
            \/ PollNode \/ PollPool

Next ==
    \/ NodeChanges \/ NodeDown \/ NodeUp
    \/ StartKernel
    \/ \E j \in candidates : Find(j) \/ Finish(j)
    \/ PollTime \/ Loop
    \/ NetworkStep

Spec == Init /\ [][Next]_vars

(* The thread goes on, time passes, the node comes back, connections are   *)
(* attempted again, and the pool sends what a session needs.               *)
OnNetwork(A) == mode = "pool" /\ A /\ UNCHANGED <<mode, nodeVars, loopVars, pollVars, minerVars>>
SetUp ==
    \/ Construct \/ Run \/ Connect \/ ReadIdCounter \/ Destroy
    \/ Request("subscribe", "authorize") \/ Request("authorize", "open")
Fairness ==
    /\ WF_vars(Loop) /\ WF_vars(PollTime) /\ WF_vars(NodeUp)
    /\ WF_vars(OnNetwork(SetUp)) /\ WF_vars(OnNetwork(ProcessLines))
    /\ WF_vars(OnNetwork(ReceiveNotify))
    /\ WF_vars(OnNetwork(ReceiveDifficulty))
    /\ WF_vars(OnNetwork(ReceiveSubscription))

FairSpec == Spec /\ Fairness

(***************************************************************************)
(* Properties                                                              *)
(***************************************************************************)
Jobs == (candidates \cup ToSet(events) \cup ToSet(batch) \cup {work, posting}) \ {None}

(* Jobs with the same clean index extend the same block, however tips,     *)
(* templates and outages follow each other: the index can tell outdated    *)
(* work from other work.                                                   *)
CleanIndexTellsParent ==
    mode = "node" =>
        \A j, k \in Jobs : j.clean = k.clean => j.header.parent = k.header.parent

(* After a successful poll the devices stand still only if the node, back  *)
(* from an outage, gives the header it gave before it (stop_mining leaves  *)
(* currentHeader as it is, and assign_work compares with it).              *)
StandsStillKnown ==
    (mode = "node" /\ work = None /\ lastPoll = "ok") => currentHeader = stoppedAt

(* When the node stays up and keeps its header, which it does in the end   *)
(* within the bounds, the devices come to mine that header, except as      *)
(* above; a blocked submission or an outage delays it only.                *)
CatchesUp ==
    <>[](mode = "node" =>
            /\ currentHeader = node.header
            /\ work = None => stoppedAt = node.header
            /\ work # None => work.header = node.header)

(* A session that lasts has its own work in the end, in whatever order     *)
(* subscription, difficulty and notifies arrive, if notifies go on.        *)
SessionGetsWork ==
    \A k \in 1 .. MaxSessions :
        (conn = "open" /\ sessions = k) ~>
            (conn # "open" \/ sessions # k \/ (work # None /\ work.notify = k - 1))
=============================================================================
