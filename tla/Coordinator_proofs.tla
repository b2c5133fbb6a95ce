-------------------------- MODULE Coordinator_proofs --------------------------
(***************************************************************************)
(* What the coordinator and the pool's sessions keep in order, for any     *)
(* number of sessions, of found hashes, of jobs on their way and of        *)
(* changes and outages of the node.                                        *)
(*                                                                         *)
(* The invariant has one part per owner of state: the session's data and   *)
(* its requests (SessionInv), a submission under way (SubmitInv), the jobs *)
(* wherever they are (JobsInv), what poll remembers (PollInv) and the rest *)
(* of the types.                                                           *)
(***************************************************************************)
EXTENDS Coordinator, TLAPS

(* Everything known of a session comes from the current one.               *)
SessionInv ==
    /\ sessions \in 0 .. MaxSessions /\ conn \in Phase
    /\ data \in [id : {0, Current}, difficulty : {None, Current},
                 notify : {None, Current}, subscription : {None, Current}]
    /\ IF conn = "none"
       THEN data = [id |-> 0, difficulty |-> None, notify |-> None,
                    subscription |-> None]
       ELSE sessions >= 1 /\ data.id = Current

(* A submission is for a session that is not later than the one it was     *)
(* taken up in; once it holds server.m it is for the current one.          *)
Locking == [at : {"lock"}, takenIn : Int, connectionId : Int]
Writing == [at : {"write"}, takenIn : Session, id : Nat]
SubmitInv ==
    submitting # None =>
        \/ /\ submitting \in Locking
           /\ submitting.connectionId <= submitting.takenIn
           /\ submitting.takenIn <= Current
        \/ /\ submitting \in Writing
           /\ submitting.takenIn = Current /\ conn # "none"

(* The requests of the session, in the order in which they are written.    *)
RequestsInv ==
    /\ wire \in Seq(Requests) /\ lines \in Seq(Requests)
    /\ idCounter \in Nat /\ readId \in Nat \cup {None}
    /\ readId # None => conn \in {"subscribe", "authorize"}
    /\ conn = "none" => Sent = <<>>
    /\ SentInSessionTakenUp

(* Until a submission comes before the set-up is done, nobody's increment  *)
(* of id_counter overlaps another's.                                       *)
IdsInv ==
    ~early =>
        /\ \A i \in 1 .. Len(Sent) : Sent[i].id < idCounter
        /\ \A i, j \in 1 .. Len(Sent) : i # j => Sent[i].id # Sent[j].id
        /\ conn \in {"made", "run"} => Sent = <<>>
        /\ readId # None => readId = idCounter
        /\ ServerHeld => submitting.id = idCounter /\ conn \in {"open", "closed"}

(* The jobs on their way are of the kind that is mined.  In a pool there   *)
(* is none before the first session.  For a node the clean index is that   *)
(* of the current tip or of an earlier one.                                *)
JobsInv ==
    /\ mode \in {"node", "pool"}
    /\ cleanIndex \in Nat
    /\ events \in Seq(Job) /\ batch \in Seq(Job) /\ candidates \subseteq Job
    /\ mode = "node" => Jobs \subseteq NodeJob
    /\ mode = "pool" => Jobs \subseteq StratumWork /\ (sessions = 0 => Jobs = {})
    /\ mode = "node" =>
         /\ \A j \in Jobs : j.clean <= cleanIndex
         /\ \A j \in Jobs : j.clean = cleanIndex => j.header.parent = prevHash
    /\ CleanIndexTellsParent
    /\ OneSession

(* While the devices stand still, the header that poll compares with is    *)
(* the one they were stopped at.                                           *)
PollInv == mode = "node" /\ work = None => currentHeader = stoppedAt

(* The node and the remaining variables of the thread.                     *)
RestInv ==
    /\ node \in [up : BOOLEAN, header : Header]
    /\ at \in {"wait", "handle", "post", "poll"}
    /\ prevHash \in Parents \cup {None} /\ currentHeader \in Header \cup {None}
    /\ found \in 0 .. MaxFound
    /\ lastPoll \in {"none", "ok", "failed"} /\ stoppedAt \in Header \cup {None}
Flags ==
    /\ needsPoll \in BOOLEAN /\ due \in BOOLEAN /\ early \in BOOLEAN

Inv == SessionInv /\ SubmitInv /\ RequestsInv /\ IdsInv
          /\ JobsInv /\ PollInv /\ RestInv /\ Flags

-----------------------------------------------------------------------------
(* Queues as sets of jobs.                                                 *)
LEMMA EmptyQueue == ToSet(<<>>) = {}
  BY DEF ToSet

LEMMA AppendedQueue ==
    ASSUME NEW S, NEW q \in Seq(S), NEW e \in S
    PROVE  Append(q, e) \in Seq(S) /\ ToSet(Append(q, e)) = ToSet(q) \cup {e}
  <1>1. Append(q, e) \in Seq(S) /\ Len(Append(q, e)) = Len(q) + 1
    OBVIOUS
  <1>2. /\ \A i \in 1 .. Len(q) : Append(q, e)[i] = q[i]
        /\ Append(q, e)[Len(q) + 1] = e
    OBVIOUS
  <1>3. /\ DOMAIN q = 1 .. Len(q)
        /\ DOMAIN Append(q, e) = 1 .. Len(q) + 1
        /\ Len(q) \in Nat
    BY <1>1
  <1>4. 1 .. Len(q) + 1 = (1 .. Len(q)) \cup {Len(q) + 1}
    BY <1>3
  <1> QED
    BY <1>1, <1>2, <1>3, <1>4 DEF ToSet

LEMMA ShorterQueue ==
    ASSUME NEW S, NEW q \in Seq(S), q # <<>>
    PROVE  /\ Tail(q) \in Seq(S) /\ Head(q) \in S
           /\ ToSet(Tail(q)) \subseteq ToSet(q) /\ Head(q) \in ToSet(q)
  <1>1. Tail(q) \in Seq(S) /\ Len(Tail(q)) = Len(q) - 1 /\ Len(q) \in Nat \ {0}
    OBVIOUS
  <1>2. \A i \in 1 .. Len(q) - 1 : Tail(q)[i] = q[i + 1]
    OBVIOUS
  <1>3. DOMAIN q = 1 .. Len(q) /\ DOMAIN Tail(q) = 1 .. Len(q) - 1
    BY <1>1
  <1>4. Head(q) = q[1]
    OBVIOUS
  <1> QED
    BY <1>1, <1>2, <1>3, <1>4 DEF ToSet

LEMMA QueueElements ==
    ASSUME NEW S, NEW q \in Seq(S) PROVE ToSet(q) \subseteq S
  BY DEF ToSet

(* A request is appended behind all others of the session.                 *)
LEMMA SentAppended ==
    ASSUME NEW r \in Requests, wire \in Seq(Requests), lines \in Seq(Requests)
    PROVE  /\ Append(lines, r) \in Seq(Requests)
           /\ Sent \in Seq(Requests)
           /\ wire \o Append(lines, r) = Append(Sent, r)
  BY DEF Sent
-----------------------------------------------------------------------------
(* All but the network thread's steps and submissions leave the session,   *)
(* its requests and a submission as they are.                              *)
Quiet == UNCHANGED <<connVars, data, submitting>>
TakesUpShare == HandleShare /\ BeginSubmit /\ UNCHANGED <<connVars, data>>

LEMMA StratumSteps ==
    ASSUME [Next]_vars
    PROVE  Quiet \/ Network \/ TakesUpShare \/ LockServer \/ WriteSubmission
  <1>1. CASE UNCHANGED vars
    BY <1>1 DEF vars, stratumVars, Quiet
  <1>2. CASE NodeChanges \/ NodeDown \/ NodeUp
    BY <1>2 DEF NodeChanges, NodeDown, NodeUp, stratumVars, Quiet
  <1>3. CASE StartKernel
    BY <1>3 DEF StartKernel, stratumVars, Quiet
  <1>4. CASE \E j \in candidates : Find(j) \/ Finish(j)
    BY <1>4 DEF Find, Finish, stratumVars, Quiet
  <1>5. CASE PollTime
    BY <1>5 DEF PollTime, stratumVars, Quiet
  <1>6. CASE Loop
    <2>1. CASE Wake \/ HandleBlock \/ Posted \/ HandledAll
      BY <2>1 DEF Wake, HandleBlock, Posted, HandledAll, stratumVars, Quiet
    <2>2. CASE HandleShare
      BY <2>2 DEF HandleShare, TakesUpShare
    <2>3. CASE Submit
      BY <2>3 DEF Submit
    <2>4. CASE PollNode \/ PollPool
      BY <2>4 DEF PollNode, PollPool, stratumVars, Quiet
    <2> QED
      BY <1>6, <2>1, <2>2, <2>3, <2>4 DEF Loop
  <1>7. CASE NetworkStep
    BY <1>7 DEF NetworkStep
  <1> QED
    BY <1>1, <1>2, <1>3, <1>4, <1>5, <1>6, <1>7 DEF Next

(* A share is taken up only when a session has given work before.          *)
LEMMA ShareNeedsSession ==
    ASSUME Inv, HandleShare PROVE sessions >= 1
  <1>1. batch # <<>> /\ mode = "pool" /\ batch \in Seq(Job)
    BY DEF HandleShare, Inv, JobsInv
  <1>2. Head(batch) \in ToSet(batch) /\ Head(batch) \in Job
    BY <1>1, ShorterQueue
  <1>3. Head(batch) \in Jobs
    BY <1>2, NoneAssumption DEF Jobs
  <1> QED
    BY <1>1, <1>3 DEF Inv, JobsInv, SessionInv

LEMMA SessionKept == Inv /\ [Next]_vars => SessionInv'
  <1> SUFFICES ASSUME Inv, [Next]_vars PROVE SessionInv'
    OBVIOUS
  <1> USE SessionAssumption DEF Inv, SessionInv, Current, Phase
  <1>1. CASE Quiet \/ TakesUpShare \/ LockServer \/ WriteSubmission
    BY <1>1 DEF Quiet, TakesUpShare, LockServer, WriteSubmission, connVars
  <1>2. CASE Network
    <2>1. CASE Construct
      BY <2>1 DEF Construct, Cleared
    <2>2. CASE Run \/ Connect
      BY <2>2 DEF Run, Connect
    <2>3. CASE ReadIdCounter
      BY <2>3 DEF ReadIdCounter
    <2>4. CASE Request("subscribe", "authorize") \/ Request("authorize", "open")
      BY <2>4 DEF Request
    <2>5. CASE ProcessLines \/ Lose
      BY <2>5 DEF ProcessLines, Lose
    <2>6. CASE ReceiveNotify \/ ReceiveDifficulty \/ ReceiveSubscription
      BY <2>6 DEF ReceiveNotify, ReceiveDifficulty, ReceiveSubscription,
                  Receiving, connVars
    <2>7. CASE Destroy
      BY <2>7 DEF Destroy, Cleared
    <2> QED
      BY <1>2, <2>1, <2>2, <2>3, <2>4, <2>5, <2>6, <2>7 DEF Network
  <1> QED
    BY <1>1, <1>2, StratumSteps

LEMMA SubmitKept == Inv /\ [Next]_vars => SubmitInv'
  <1> SUFFICES ASSUME Inv, [Next]_vars PROVE SubmitInv'
    OBVIOUS
  <1> USE SessionAssumption DEF Inv, SubmitInv, SessionInv, Current, Locking, Writing
  <1>1. CASE Quiet
    BY <1>1 DEF Quiet, connVars
  <1>2. CASE TakesUpShare
    BY <1>2, ShareNeedsSession DEF TakesUpShare, BeginSubmit, connVars
  <1>3. CASE LockServer
    BY <1>3 DEF LockServer, Accepts, Session, RequestsInv
  <1>4. CASE WriteSubmission
    BY <1>4 DEF WriteSubmission
  <1>5. CASE Network
    <2>1. CASE Construct
      BY <2>1 DEF Construct, ServerHeld, Session
    <2>2. CASE Run \/ Connect
      BY <2>2 DEF Run, Connect
    <2>3. CASE ReadIdCounter
      BY <2>3 DEF ReadIdCounter
    <2>4. CASE Request("subscribe", "authorize") \/ Request("authorize", "open")
      BY <2>4 DEF Request
    <2>5. CASE ProcessLines \/ Lose
      BY <2>5 DEF ProcessLines, Lose
    <2>6. CASE ReceiveNotify \/ ReceiveDifficulty \/ ReceiveSubscription
      BY <2>6 DEF ReceiveNotify, ReceiveDifficulty, ReceiveSubscription,
                  Receiving, connVars
    <2>7. CASE Destroy
      BY <2>7 DEF Destroy, ServerHeld
    <2> QED
      BY <1>5, <2>1, <2>2, <2>3, <2>4, <2>5, <2>6, <2>7 DEF Network
  <1> QED
    BY <1>1, <1>2, <1>3, <1>4, <1>5, StratumSteps

-----------------------------------------------------------------------------
(* Where requests may be written, nobody has destroyed the connection.     *)
LEMMA HeldFacts ==
    ASSUME SubmitInv, SessionInv, ServerHeld
    PROVE  /\ conn # "none" /\ submitting.takenIn = Current
           /\ submitting.id \in Nat /\ Current \in Session
  BY SessionAssumption
  DEF SubmitInv, SessionInv, ServerHeld, Locking, Writing, Current, Session

(* What a step does to the requests of the session.                        *)
LEMMA SentSteps ==
    ASSUME Inv, [Next]_vars
    PROVE  /\ wire' \in Seq(Requests) /\ lines' \in Seq(Requests)
           /\ \/ Sent' = Sent /\ UNCHANGED sessions
              \/ Sent' = <<>>
              \/ \E kind \in {"subscribe", "authorize"} :
                   /\ conn = kind /\ readId # None /\ UNCHANGED sessions
                   /\ Sent' = Append(Sent, [id |-> readId, kind |-> kind])
              \/ /\ ServerHeld /\ UNCHANGED sessions
                 /\ Sent' = Append(Sent, [id |-> submitting.id, kind |-> "submit",
                                          takenIn |-> submitting.takenIn])
  <1> USE DEF Inv, RequestsInv
  <1>1. CASE Quiet \/ TakesUpShare \/ LockServer
    BY <1>1 DEF Quiet, TakesUpShare, LockServer, connVars, Sent
  <1>2. CASE WriteSubmission
    <2> DEFINE r == [id |-> submitting.id, kind |-> "submit",
                     takenIn |-> submitting.takenIn]
    <2>1. r \in Requests
      BY <1>2, HeldFacts DEF WriteSubmission, Requests
    <2>2. lines' = Append(lines, r) /\ wire' = wire /\ ServerHeld /\ sessions' = sessions
      BY <1>2 DEF WriteSubmission
    <2> HIDE DEF r
    <2>3. Sent' = Append(Sent, r) /\ lines' \in Seq(Requests)
      BY <2>1, <2>2, SentAppended DEF Sent
    <2> QED
      BY <2>2, <2>3 DEF r
  <1>3. CASE Network
    <2>1. CASE Construct
      BY <2>1 DEF Construct, Sent
    <2>2. CASE Run \/ Connect
      BY <2>2 DEF Run, Connect, Sent
    <2>3. CASE ReadIdCounter
      BY <2>3 DEF ReadIdCounter, Sent
    <2>4. ASSUME NEW kind \in {"subscribe", "authorize"}, NEW then,
                 Request(kind, then)
          PROVE  /\ wire' \in Seq(Requests) /\ lines' \in Seq(Requests)
                 /\ conn = kind /\ readId # None /\ UNCHANGED sessions
                 /\ Sent' = Append(Sent, [id |-> readId, kind |-> kind])
      <3> DEFINE r == [id |-> readId, kind |-> kind]
      <3>1. r \in Requests
        BY <2>4 DEF Request, Requests
      <3>2. lines' = Append(lines, r) /\ wire' = wire /\ conn = kind
            /\ readId # None /\ sessions' = sessions
        BY <2>4 DEF Request
      <3> HIDE DEF r
      <3>3. Sent' = Append(Sent, r) /\ lines' \in Seq(Requests)
        BY <3>1, <3>2, SentAppended DEF Sent
      <3> QED
        BY <3>2, <3>3 DEF r
    <2>5. CASE ProcessLines
      <3>1. wire' = wire \o lines /\ lines' = <<>> /\ sessions' = sessions
        BY <2>5 DEF ProcessLines
      <3>2. wire \o lines \in Seq(Requests)
        OBVIOUS
      <3>3. (wire \o lines) \o <<>> = wire \o lines
        BY <3>2
      <3> QED
        BY <3>1, <3>2, <3>3 DEF Sent
    <2>6. CASE Lose
      BY <2>6 DEF Lose, Sent
    <2>7. CASE ReceiveNotify \/ ReceiveDifficulty \/ ReceiveSubscription
      BY <2>7 DEF ReceiveNotify, ReceiveDifficulty, ReceiveSubscription,
                  Receiving, connVars, Sent
    <2>8. CASE Destroy
      BY <2>8 DEF Destroy, Sent
    <2> QED
      BY <1>3, <2>1, <2>2, <2>3, <2>4, <2>5, <2>6, <2>7, <2>8 DEF Network
  <1> QED
    BY <1>1, <1>2, <1>3, StratumSteps

(* The number of sessions only grows when there is no connection.          *)
LEMMA SentTakenUpKept == Inv /\ [Next]_vars => SentInSessionTakenUp'
  <1> SUFFICES ASSUME Inv, [Next]_vars PROVE SentInSessionTakenUp'
    OBVIOUS
  <1>1. Sent \in Seq(Requests) /\ SentInSessionTakenUp
    BY DEF Inv, RequestsInv, Sent
  <1>2. CASE Sent' = Sent /\ UNCHANGED sessions
    BY <1>1, <1>2 DEF SentInSessionTakenUp, Current
  <1>3. CASE Sent' = <<>>
    BY <1>3 DEF SentInSessionTakenUp
  <1>4. ASSUME UNCHANGED sessions,
               NEW r, Sent' = Append(Sent, r),
               r.kind = "submit" => r.takenIn = Current
        PROVE  SentInSessionTakenUp'
    <2>1. Len(Sent') = Len(Sent) + 1 /\ Sent'[Len(Sent) + 1] = r
          /\ \A i \in 1 .. Len(Sent) : Sent'[i] = Sent[i]
      BY <1>1, <1>4
    <2> QED
      BY <1>1, <1>4, <2>1 DEF SentInSessionTakenUp, Current
  <1> QED
    BY <1>2, <1>3, <1>4, SentSteps, HeldFacts DEF Inv

(* Where the connection is and what is read of its id_counter.             *)
CounterInv ==
    /\ idCounter \in Nat /\ readId \in Nat \cup {None}
    /\ readId # None => conn \in {"subscribe", "authorize"}
    /\ conn = "none" => Sent = <<>>

LEMMA RequestsKept == Inv /\ [Next]_vars => RequestsInv'
  <1> SUFFICES ASSUME Inv, [Next]_vars PROVE CounterInv'
    BY SentSteps, SentTakenUpKept DEF RequestsInv, CounterInv
  <1> USE DEF Inv, RequestsInv, CounterInv
  <1>1. CASE Quiet \/ TakesUpShare \/ LockServer
    BY <1>1 DEF Quiet, TakesUpShare, LockServer, connVars, Sent
  <1>2. CASE WriteSubmission
    BY <1>2, HeldFacts DEF WriteSubmission
  <1>3. CASE Network
    <2>1. CASE Construct
      BY <2>1 DEF Construct, Sent
    <2>2. CASE Run \/ Connect
      BY <2>2 DEF Run, Connect
    <2>3. CASE ReadIdCounter
      BY <2>3 DEF ReadIdCounter
    <2>4. CASE Request("subscribe", "authorize") \/ Request("authorize", "open")
      BY <2>4 DEF Request
    <2>5. CASE ProcessLines \/ Lose
      BY <2>5 DEF ProcessLines, Lose
    <2>6. CASE ReceiveNotify \/ ReceiveDifficulty \/ ReceiveSubscription
      BY <2>6 DEF ReceiveNotify, ReceiveDifficulty, ReceiveSubscription,
                  Receiving, connVars
    <2>7. CASE Destroy
      <3>1. Sent' = <<>>
        BY <2>7 DEF Destroy, Sent
      <3> QED
        BY <2>7, <3>1 DEF Destroy
    <2> QED
      BY <1>3, <2>1, <2>2, <2>3, <2>4, <2>5, <2>6, <2>7 DEF Network
  <1> QED
    BY <1>1, <1>2, <1>3, StratumSteps

(* A request with a new id, and the counter counted past it.               *)
LEMMA NewIdIsUnique ==
    ASSUME NEW q \in Seq(Requests), NEW r \in Requests, NEW n \in Nat,
           \A i \in 1 .. Len(q) : q[i].id < n,
           \A i, j \in 1 .. Len(q) : i # j => q[i].id # q[j].id,
           r.id = n
    PROVE  /\ \A i \in 1 .. Len(Append(q, r)) : Append(q, r)[i].id < n + 1
           /\ \A i, j \in 1 .. Len(Append(q, r)) :
                  i # j => Append(q, r)[i].id # Append(q, r)[j].id
  <1>1. /\ Len(Append(q, r)) = Len(q) + 1 /\ Append(q, r)[Len(q) + 1] = r
        /\ \A i \in 1 .. Len(q) : Append(q, r)[i] = q[i]
    OBVIOUS
  <1>2. \A i \in 1 .. Len(q) : q[i].id \in Nat
    BY DEF Requests
  <1>3. \A i \in 1 .. Len(q) + 1 : i \in 1 .. Len(q) \/ i = Len(q) + 1
    OBVIOUS
  <1>4. \A i \in 1 .. Len(q) + 1 : Append(q, r)[i].id < n + 1
    BY <1>1, <1>2, <1>3
  <1>5. \A i, j \in 1 .. Len(q) + 1 :
            i # j => Append(q, r)[i].id # Append(q, r)[j].id
    BY <1>1, <1>2, <1>3
  <1> QED
    BY <1>1, <1>4, <1>5

LEMMA IdsKept == Inv /\ [Next]_vars => IdsInv'
  <1> SUFFICES ASSUME Inv, [Next]_vars, ~early' PROVE IdsInv'
    BY DEF IdsInv
  <1>0. Sent \in Seq(Requests) /\ idCounter \in Nat
    BY DEF Inv, RequestsInv, Sent
  <1>1. CASE Quiet
    BY <1>1 DEF Quiet, connVars, Inv, IdsInv, Sent, ServerHeld
  <1>2. CASE TakesUpShare
    BY <1>2 DEF TakesUpShare, BeginSubmit, connVars, Inv, IdsInv, Sent, ServerHeld
  <1>3. CASE LockServer
    <2>1. CASE Accepts(submitting.connectionId)
      <3>1. early' = (early \/ conn \notin {"open", "closed"})
        BY <1>3, <2>1, Zenon DEF LockServer
      <3>2. ~early /\ conn \in {"open", "closed"}
        BY <3>1, Zenon
      <3>3. submitting' = [at |-> "write", takenIn |-> submitting.takenIn,
                           id |-> idCounter]
        BY <1>3, <2>1 DEF LockServer
      <3> QED
        BY <1>3, <3>2, <3>3 DEF LockServer, Inv, IdsInv, Sent
    <2>2. CASE ~Accepts(submitting.connectionId)
      <3>1. submitting' = None /\ early' = early
        BY <1>3, <2>2, Zenon DEF LockServer
      <3>2. ~early /\ ~ServerHeld'
        BY <3>1, Zenon DEF ServerHeld
      <3> QED
        BY <1>3, <3>2 DEF LockServer, Inv, IdsInv, Sent
    <2> QED
      BY <2>1, <2>2
  <1>4. CASE WriteSubmission
    <2> DEFINE r == [id |-> submitting.id, kind |-> "submit",
                     takenIn |-> submitting.takenIn]
    <2>1. ~early /\ submitting.id = idCounter /\ conn \in {"open", "closed"}
      BY <1>4 DEF WriteSubmission, Inv, IdsInv
    <2>2. r \in Requests /\ r.id = idCounter
      BY <1>4, <2>1, HeldFacts DEF WriteSubmission, Requests, Inv
    <2>3. Sent' = Append(Sent, r)
      <3> HIDE DEF r
      <3>1. lines' = Append(lines, r) /\ wire' = wire
        BY <1>4 DEF WriteSubmission, r
      <3> QED
        BY <2>2, <3>1, SentAppended DEF Sent, Inv, RequestsInv
    <2> HIDE DEF r
    <2>4. idCounter' = idCounter + 1 /\ conn' = conn /\ readId' = readId
          /\ ~ServerHeld'
      BY <1>4, <2>1 DEF WriteSubmission, ServerHeld
    <2>5. readId' = None
      BY <2>1, <2>4 DEF Inv, RequestsInv
    <2>6. /\ \A i \in 1 .. Len(Sent') : Sent'[i].id < idCounter'
          /\ \A i, j \in 1 .. Len(Sent') : i # j => Sent'[i].id # Sent'[j].id
      BY <1>0, <2>1, <2>2, <2>3, <2>4, NewIdIsUnique DEF Inv, IdsInv
    <2> QED
      BY <2>1, <2>4, <2>5, <2>6 DEF IdsInv
  <1>5. CASE Network
    <2>1. CASE Construct
      <3>1. Sent' = <<>> /\ conn' = "made" /\ readId' = readId /\ ~ServerHeld'
        BY <2>1 DEF Construct, Sent, Inv, RequestsInv, ServerHeld
      <3>2. readId' = None
        BY <2>1, <3>1 DEF Construct, Inv, RequestsInv
      <3> QED
        BY <3>1, <3>2 DEF IdsInv
    <2>2. CASE Run
      <3>1. Sent' = <<>>
        BY <2>2 DEF Run, Sent, Inv, IdsInv
      <3>2. readId' = None /\ ~ServerHeld'
        BY <2>2 DEF Run, Inv, RequestsInv, IdsInv, ServerHeld
      <3> QED
        BY <2>2, <3>1, <3>2 DEF Run, IdsInv
    <2>3. CASE Connect
      BY <2>3 DEF Connect, Inv, IdsInv, Sent, ServerHeld, RequestsInv
    <2>4. CASE ReadIdCounter
      BY <2>4 DEF ReadIdCounter, Inv, IdsInv, Sent, ServerHeld
    <2>5. ASSUME NEW kind \in {"subscribe", "authorize"},
                 NEW then \in {"authorize", "open"},
                 Request(kind, then)
          PROVE  IdsInv'
      <3> DEFINE r == [id |-> readId, kind |-> kind]
      <3>1. ~early /\ readId = idCounter /\ ~ServerHeld
        BY <2>5 DEF Request, Inv, IdsInv
      <3>2. r \in Requests /\ r.id = idCounter
        BY <1>0, <3>1 DEF Requests
      <3>3. Sent' = Append(Sent, r)
        <4> HIDE DEF r
        <4>1. lines' = Append(lines, r) /\ wire' = wire
          BY <2>5 DEF Request, r
        <4> QED
          BY <3>2, <4>1, SentAppended DEF Sent, Inv, RequestsInv
      <3> HIDE DEF r
      <3>4. idCounter' = idCounter + 1 /\ conn' = then /\ readId' = None
            /\ ~ServerHeld'
        BY <2>5, <3>1 DEF Request, ServerHeld
      <3>5. /\ \A i \in 1 .. Len(Sent') : Sent'[i].id < idCounter'
            /\ \A i, j \in 1 .. Len(Sent') : i # j => Sent'[i].id # Sent'[j].id
        BY <1>0, <3>1, <3>2, <3>3, <3>4, NewIdIsUnique DEF Inv, IdsInv
      <3> QED
        BY <3>4, <3>5 DEF IdsInv
    <2>6. CASE ProcessLines
      <3>1. Sent' = Sent
        <4>1. wire' = wire \o lines /\ lines' = <<>>
          BY <2>6 DEF ProcessLines
        <4>2. (wire \o lines) \o <<>> = wire \o lines
          BY DEF Inv, RequestsInv
        <4> QED
          BY <4>1, <4>2 DEF Sent
      <3> QED
        BY <2>6, <3>1 DEF ProcessLines, Inv, IdsInv, ServerHeld
    <2>7. CASE Lose
      BY <2>7 DEF Lose, Inv, IdsInv, Sent, ServerHeld
    <2>8. CASE ReceiveNotify \/ ReceiveDifficulty \/ ReceiveSubscription
      BY <2>8 DEF ReceiveNotify, ReceiveDifficulty, ReceiveSubscription,
                  Receiving, connVars, Inv, IdsInv, Sent, ServerHeld
    <2>9. CASE Destroy
      <3>1. Sent' = <<>>
        BY <2>9 DEF Destroy, Sent
      <3> QED
        BY <2>9, <3>1 DEF Destroy, Inv, IdsInv, ServerHeld
    <2> QED
      BY <1>5, <2>1, <2>2, <2>3, <2>4, <2>5, <2>6, <2>7, <2>8, <2>9 DEF Network
  <1> QED
    BY <1>1, <1>2, <1>3, <1>4, <1>5, StratumSteps

-----------------------------------------------------------------------------
(* What a step does to the jobs: it takes them further or gives them up,   *)
(* or it installs work of the current session, or it is a poll that the    *)
(* node answers.                                                           *)
SessionWork == [difficulty |-> Current, notify |-> Current, subscription |-> Current]

NoNewJob == /\ Jobs' \subseteq Jobs /\ (work' = work \/ work' = None)
            /\ UNCHANGED <<prevHash, cleanIndex>>
NewSessionWork == /\ mode = "pool" /\ sessions >= 1 /\ work' = SessionWork
                  /\ Jobs' \subseteq Jobs \cup {work'}
                  /\ UNCHANGED <<prevHash, cleanIndex>>
Polled == /\ mode = "node" /\ node.header \in Header /\ AssignWork(node.header)
          /\ Jobs' \subseteq Jobs \cup ({work'} \ {None})

JobQueues == events' \in Seq(Job) /\ batch' \in Seq(Job) /\ candidates' \subseteq Job

LEMMA InstalledWork ==
    ASSUME Inv, mode = "pool", Network
    PROVE  work' = work \/ (sessions >= 1 /\ work' = SessionWork)
  <1> USE DEF Inv, SessionInv
  <1>1. ASSUME NEW d,
               d \in [id : {0, Current}, difficulty : {None, Current},
                      notify : {None, Current}, subscription : {None, Current}],
               data' = d, conn = "open", Install
        PROVE  work' = work \/ (sessions >= 1 /\ work' = SessionWork)
    BY <1>1 DEF Install, SessionWork
  <1>2. CASE ReceiveNotify
    <2>1. data' = [data EXCEPT !.notify = Current] /\ conn = "open" /\ Install
      BY <1>2 DEF ReceiveNotify, Receiving
    <2> QED
      BY <1>1, <2>1
  <1>3. CASE ReceiveDifficulty
    <2>1. data' = [data EXCEPT !.difficulty = Current] /\ conn = "open" /\ Install
      BY <1>3 DEF ReceiveDifficulty, Receiving
    <2> QED
      BY <1>1, <2>1
  <1> QED
    BY <1>2, <1>3
    DEF Network, Construct, Run, Connect, ReadIdCounter, Request, ProcessLines,
        ReceiveSubscription, Lose, Destroy

LEMMA JobSteps ==
    ASSUME Inv, [Next]_vars
    PROVE  /\ JobQueues /\ UNCHANGED mode
           /\ NoNewJob \/ NewSessionWork \/ Polled
  <1> USE DEF Inv, JobsInv, JobQueues
  <1>0. /\ ToSet(events) \subseteq Job /\ ToSet(batch) \subseteq Job
        /\ ToSet(<<>>) = {} /\ <<>> \in Seq(Job)
    BY EmptyQueue, QueueElements
  <1>1. CASE UNCHANGED vars
    BY <1>1 DEF vars, stratumVars, minerVars, loopVars, pollVars, NoNewJob, Jobs
  <1>2. CASE NodeChanges \/ NodeDown \/ NodeUp \/ PollTime
    BY <1>2 DEF NodeChanges, NodeDown, NodeUp, PollTime, stratumVars, minerVars,
                loopVars, pollVars, NoNewJob, Jobs
  <1>3. CASE StartKernel
    <2>1. work \in Job
      BY <1>3 DEF StartKernel, Jobs, Job
    <2> QED
      BY <1>3, <2>1 DEF StartKernel, stratumVars, loopVars, pollVars, NoNewJob, Jobs
  <1>4. ASSUME NEW j \in candidates, Find(j)
        PROVE  JobQueues /\ UNCHANGED mode /\ NoNewJob
    <2>1. j \in Job
      BY <1>4
    <2>2. events' \in Seq(Job) /\ ToSet(events') = ToSet(events) \cup {j}
      BY <1>4, <2>1, AppendedQueue DEF Find
    <2> QED
      BY <1>4, <2>2 DEF Find, stratumVars, pollVars, NoNewJob, Jobs
  <1>5. ASSUME NEW j \in candidates, Finish(j)
        PROVE  JobQueues /\ UNCHANGED mode /\ NoNewJob
    BY <1>5 DEF Finish, stratumVars, loopVars, pollVars, NoNewJob, Jobs
  <1>6. CASE Loop
    <2>1. CASE Wake
      BY <1>0, <2>1 DEF Wake, stratumVars, minerVars, pollVars, NoNewJob, Jobs
    <2>2. CASE HandleBlock
      <3>1. batch \in Seq(Job) /\ batch # <<>> /\ batch' = Tail(batch)
            /\ posting' \in {posting, Head(batch)}
            /\ UNCHANGED <<events, work, candidates, mode, prevHash, cleanIndex>>
        BY <2>2 DEF HandleBlock, stratumVars, minerVars, pollVars
      <3>2. batch' \in Seq(Job) /\ ToSet(batch') \subseteq ToSet(batch)
            /\ Head(batch) \in ToSet(batch)
        BY <3>1, ShorterQueue
      <3> QED
        BY <3>1, <3>2 DEF NoNewJob, Jobs
    <2>3. CASE Posted
      BY <2>3 DEF Posted, stratumVars, minerVars, pollVars, NoNewJob, Jobs
    <2>4. CASE HandleShare
      <3>1. batch \in Seq(Job) /\ batch # <<>> /\ batch' = Tail(batch)
            /\ UNCHANGED <<posting, events, work, candidates, mode, prevHash, cleanIndex>>
        BY <2>4 DEF HandleShare, minerVars, pollVars
      <3>2. batch' \in Seq(Job) /\ ToSet(batch') \subseteq ToSet(batch)
        BY <3>1, ShorterQueue
      <3> QED
        BY <3>1, <3>2 DEF NoNewJob, Jobs
    <2>5. CASE Submit
      BY <2>5 DEF Submit, LockServer, WriteSubmission, minerVars, loopVars,
                  pollVars, NoNewJob, Jobs
    <2>6. CASE HandledAll
      BY <2>6 DEF HandledAll, stratumVars, minerVars, pollVars, NoNewJob, Jobs
    <2>7. CASE PollNode
      <3>1. CASE node.up
        BY <2>7, <3>1 DEF PollNode, minerVars, RestInv, Polled, Jobs
      <3>2. CASE ~node.up
        BY <2>7, <3>2 DEF PollNode, StopMining, minerVars, NoNewJob, Jobs
      <3> QED
        BY <3>1, <3>2
    <2>8. CASE PollPool
      BY <2>8 DEF PollPool, stratumVars, minerVars, pollVars, NoNewJob, Jobs
    <2> QED
      BY <1>6, <2>1, <2>2, <2>3, <2>4, <2>5, <2>6, <2>7, <2>8 DEF Loop
  <1>7. CASE NetworkStep
    <2>1. work' = work \/ (sessions >= 1 /\ work' = SessionWork)
      BY <1>7, InstalledWork DEF NetworkStep
    <2>2. UNCHANGED <<mode, events, batch, posting, candidates, prevHash, cleanIndex>>
          /\ mode = "pool"
      BY <1>7 DEF NetworkStep, loopVars, pollVars, minerVars
    <2> QED
      BY <2>1, <2>2 DEF NoNewJob, NewSessionWork, Jobs
  <1> QED
    BY <1>1, <1>2, <1>3, <1>4, <1>5, <1>6, <1>7 DEF Next

(* The index counts the tips that poll has seen: a job made for another    *)
(* tip has a smaller one.                                                  *)
LEMMA JobsKept == Inv /\ [Next]_vars => JobsInv'
  <1> SUFFICES ASSUME Inv, [Next]_vars PROVE JobsInv'
    OBVIOUS
  <1>1. JobQueues /\ mode' = mode /\ (NoNewJob \/ NewSessionWork \/ Polled)
    BY JobSteps
  <1>2. sessions' \in Nat /\ (sessions >= 1 => sessions' >= 1) /\ sessions \in Nat
    <2>1. sessions' = sessions \/ sessions' = sessions + 1
      BY StratumSteps
      DEF Quiet, TakesUpShare, LockServer, WriteSubmission, connVars, Network,
          Construct, Run, Connect, ReadIdCounter, Request, ProcessLines, Lose,
          ReceiveNotify, ReceiveDifficulty, ReceiveSubscription, Receiving, Destroy
    <2> QED
      BY <2>1, SessionAssumption DEF Inv, SessionInv
  <1>3. CASE NoNewJob
    <2>1. work' = work \/ work' = None
      BY <1>3 DEF NoNewJob
    <2>2. OneSession'
      BY <2>1 DEF Inv, JobsInv, OneSession
    <2>3. Jobs' \subseteq Jobs /\ prevHash' = prevHash /\ cleanIndex' = cleanIndex
      BY <1>3 DEF NoNewJob
    <2>4. CleanIndexTellsParent'
      BY <1>1, <2>3 DEF Inv, JobsInv, CleanIndexTellsParent
    <2>5. sessions' = 0 => sessions = 0
      BY <1>2
    <2> QED
      BY <1>1, <2>2, <2>3, <2>4, <2>5 DEF Inv, JobsInv, JobQueues
  <1>4. CASE NewSessionWork
    <2>1. Current \in Session
      BY <1>4, SessionAssumption DEF NewSessionWork, Inv, SessionInv, Current, Session
    <2>2. work' \in StratumWork
      BY <1>4, <2>1 DEF NewSessionWork, SessionWork, StratumWork
    <2>3. OneSession'
      BY <1>4 DEF NewSessionWork, SessionWork, OneSession
    <2>4. mode' = "pool" /\ sessions' # 0
      BY <1>1, <1>2, <1>4 DEF NewSessionWork
    <2>5. Jobs' \subseteq StratumWork /\ cleanIndex' \in Nat
      BY <1>4, <2>2 DEF NewSessionWork, Inv, JobsInv
    <2> QED
      BY <1>1, <2>3, <2>4, <2>5 DEF JobsInv, JobQueues, CleanIndexTellsParent
  <1>5. CASE Polled
    <2> DEFINE h == node.header
    <2>0. h \in Header /\ mode = "node" /\ mode' = "node" /\ cleanIndex \in Nat
      BY <1>1, <1>5 DEF Polled, Inv, JobsInv
    <2>1. /\ prevHash' = h.parent
          /\ cleanIndex' = IF h.parent # prevHash THEN cleanIndex + 1 ELSE cleanIndex
          /\ work' = work \/ work' = [header |-> h, clean |-> cleanIndex']
      BY <1>5 DEF Polled, AssignWork
    <2> HIDE DEF h
    <2>2. cleanIndex' \in Nat
      BY <2>0, <2>1
    <2>3. /\ Jobs \subseteq NodeJob
          /\ \A j \in Jobs : j.clean \in Nat /\ j.clean <= cleanIndex
          /\ \A j \in Jobs : j.clean = cleanIndex => j.header.parent = prevHash
      BY <2>0 DEF Inv, JobsInv, NodeJob
    <2>4. \A j \in Jobs : j.clean <= cleanIndex'
      BY <2>0, <2>1, <2>3
    <2>5. \A j \in Jobs : j.clean = cleanIndex' => j.header.parent = prevHash'
      BY <2>0, <2>1, <2>3
    <2>6. Jobs' \subseteq Jobs \cup {[header |-> h, clean |-> cleanIndex']}
      <3>1. CASE work' = work
        <4>1. work' \in Jobs \cup {None}
          BY <3>1 DEF Jobs
        <4> QED
          BY <1>5, <4>1 DEF Polled
      <3> QED
        BY <1>5, <2>1, <3>1 DEF Polled
    <2>7. [header |-> h, clean |-> cleanIndex'] \in NodeJob
      BY <2>0, <2>2 DEF NodeJob
    <2>8. Jobs' \subseteq NodeJob
      BY <2>3, <2>6, <2>7
    <2>9. /\ \A j \in Jobs' : j.clean <= cleanIndex'
          /\ \A j \in Jobs' : j.clean = cleanIndex' => j.header.parent = prevHash'
      BY <2>1, <2>2, <2>4, <2>5, <2>6
    <2>10. CleanIndexTellsParent'
      <3>1. \A j, k \in Jobs : j.clean = k.clean => j.header.parent = k.header.parent
        BY <2>0 DEF Inv, JobsInv, CleanIndexTellsParent
      <3>2. \A j \in Jobs : j.clean = cleanIndex' => j.header.parent = h.parent
        BY <2>1, <2>5
      <3>3. SUFFICES ASSUME NEW j \in Jobs', NEW k \in Jobs', j.clean = k.clean
                     PROVE  j.header.parent = k.header.parent
        BY DEF CleanIndexTellsParent
      <3> QED
        BY <2>6, <3>1, <3>2, <3>3
    <2>11. OneSession'
      <3>1. CASE work' = work
        BY <3>1 DEF Inv, JobsInv, OneSession
      <3>2. CASE work' = [header |-> h, clean |-> cleanIndex']
        <4>1. "notify" \notin DOMAIN work'
          BY <3>2
        <4> QED
          BY <4>1 DEF OneSession
      <3> QED
        BY <2>1, <3>1, <3>2
    <2> QED
      BY <1>1, <2>0, <2>2, <2>8, <2>9, <2>10, <2>11 DEF JobsInv, JobQueues
  <1> QED
    BY <1>1, <1>3, <1>4, <1>5

(* Only poll gives work to the devices or takes it from them.              *)
LEMMA PollKept == Inv /\ [Next]_vars => PollInv'
  <1> SUFFICES ASSUME Inv, [Next]_vars PROVE PollInv'
    OBVIOUS
  <1> USE DEF PollInv
  <1>1. CASE PollNode
    <2>1. CASE node.up
      <3>1. AssignWork(node.header) /\ stoppedAt' = stoppedAt /\ mode' = mode
            /\ node.header \in Header
        BY <1>1, <2>1 DEF PollNode, Inv, RestInv
      <3>2. cleanIndex' \in Nat
        BY <3>1 DEF AssignWork, Inv, JobsInv
      <3>3. [header |-> node.header, clean |-> cleanIndex'] # None
        BY <3>1, <3>2, NoneAssumption DEF Job, NodeJob
      <3> QED
        BY <3>1, <3>3 DEF AssignWork, Inv
    <2>2. CASE ~node.up
      BY <1>1, <2>2 DEF PollNode, StopMining
    <2> QED
      BY <2>1, <2>2
  <1>2. CASE NetworkStep
    BY <1>2 DEF NetworkStep
  <1>3. CASE UNCHANGED vars
    BY <1>3 DEF vars, stratumVars, pollVars, Inv
  <1>4. CASE NodeChanges \/ NodeDown \/ NodeUp \/ PollTime \/ StartKernel
    BY <1>4 DEF NodeChanges, NodeDown, NodeUp, PollTime, StartKernel, stratumVars,
                pollVars, Inv
  <1>5. CASE \E j \in candidates : Find(j) \/ Finish(j)
    BY <1>5 DEF Find, Finish, stratumVars, pollVars, Inv
  <1>6. CASE Wake \/ HandleBlock \/ Posted \/ HandleShare \/ HandledAll \/ PollPool
    BY <1>6 DEF Wake, HandleBlock, Posted, HandleShare, HandledAll, PollPool,
                stratumVars, pollVars, Inv
  <1>7. CASE Submit
    BY <1>7 DEF Submit, LockServer, WriteSubmission, pollVars, Inv
  <1> QED
    BY <1>1, <1>2, <1>3, <1>4, <1>5, <1>6, <1>7 DEF Next, Loop

LEMMA RestKept == Inv /\ [Next]_vars => RestInv'
  <1> SUFFICES ASSUME Inv, [Next]_vars PROVE RestInv'
    OBVIOUS
  <1> USE DEF Inv, RestInv
  <1>1. CASE NodeChanges
    <2>1. PICK h \in Header : node' = [node EXCEPT !.header = h]
      BY <1>1 DEF NodeChanges
    <2>2. node' \in [up : BOOLEAN, header : Header]
      BY <2>1
    <2> QED
      BY <1>1, <2>2 DEF NodeChanges, loopVars, pollVars, minerVars
  <1>2. CASE NodeDown \/ NodeUp
    BY <1>2 DEF NodeDown, NodeUp, loopVars, pollVars, minerVars
  <1>3. CASE StartKernel \/ PollTime
    BY <1>3 DEF StartKernel, PollTime, nodeVars, loopVars, pollVars, minerVars
  <1>4. CASE \E j \in candidates : Find(j) \/ Finish(j)
    BY <1>4, SessionAssumption DEF Find, Finish, nodeVars, loopVars, pollVars
  <1>5. CASE Wake \/ HandleBlock \/ Posted \/ HandleShare \/ HandledAll \/ PollPool
    BY <1>5 DEF Wake, HandleBlock, Posted, HandleShare, HandledAll, PollPool,
                nodeVars, pollVars, minerVars
  <1>6. CASE Submit
    BY <1>6 DEF Submit, nodeVars, loopVars, pollVars, minerVars
  <1>7. CASE PollNode
    <2>1. node.header \in Header /\ node.header.parent \in Parents
      BY DEF Header
    <2> QED
      BY <1>7, <2>1 DEF PollNode, AssignWork, StopMining, nodeVars, minerVars
  <1>8. CASE NetworkStep
    BY <1>8 DEF NetworkStep, nodeVars, loopVars, pollVars, minerVars
  <1>9. CASE UNCHANGED vars
    BY <1>9 DEF vars, nodeVars, loopVars, pollVars, minerVars
  <1> QED
    BY <1>1, <1>2, <1>3, <1>4, <1>5, <1>6, <1>7, <1>8, <1>9 DEF Next, Loop

(* early, needsPoll and due are flags.                                     *)
LEMMA FlagsKept == Inv /\ [Next]_vars => Flags'
  <1> SUFFICES ASSUME Flags, [Next]_vars PROVE Flags'
    BY DEF Inv
  <1>1. early' \in BOOLEAN
    <2>1. early' = early \/ early' = FALSE
          \/ early' = (early \/ conn \notin {"open", "closed"})
      <3>1. CASE Quiet \/ TakesUpShare
        BY <3>1, Zenon DEF Quiet, TakesUpShare, connVars
      <3>2. CASE LockServer
        BY <3>2, Zenon DEF LockServer
      <3>3. CASE WriteSubmission
        BY <3>3, Zenon DEF WriteSubmission
      <3>4. CASE Network
        BY <3>4, Zenon
        DEF Network, Construct, Run, Connect, ReadIdCounter, Request, ProcessLines,
            ReceiveNotify, ReceiveDifficulty, ReceiveSubscription, Receiving,
            connVars, Lose, Destroy
      <3> QED
        BY <3>1, <3>2, <3>3, <3>4, StratumSteps
    <2> QED
      BY <2>1, Zenon DEF Flags
  <1>2. needsPoll' \in BOOLEAN
    <2>1. needsPoll' \in {needsPoll, TRUE, FALSE} \/ needsPoll' = (needsPoll \/ due)
      BY Zenon
      DEF Next, Loop, vars, NodeChanges, NodeDown, NodeUp, StartKernel, Find,
          Finish, PollTime, Wake, HandleBlock, Posted, HandleShare, Submit,
          HandledAll, PollNode, PollPool, NetworkStep, loopVars
    <2> QED
      BY <2>1, Zenon DEF Flags
  <1>3. due' \in BOOLEAN
    <2>1. due' \in {due, TRUE, FALSE}
      BY Zenon
      DEF Next, Loop, vars, NodeChanges, NodeDown, NodeUp, StartKernel, Find,
          Finish, PollTime, Wake, HandleBlock, Posted, HandleShare, Submit,
          HandledAll, PollNode, PollPool, NetworkStep, loopVars
    <2> QED
      BY <2>1, Zenon DEF Flags
  <1> QED
    BY <1>1, <1>2, <1>3 DEF Flags

LEMMA InvInit == Init => Inv
  <1> SUFFICES ASSUME Init PROVE Inv
    OBVIOUS
  <1> USE DEF Init, InitStratum
  <1>1. Sent = <<>> /\ Current = -1 /\ submitting = None /\ readId = None
    BY DEF Sent, Current
  <1>2. SessionInv
    BY <1>1, SessionAssumption DEF SessionInv, Phase
  <1>3. SubmitInv /\ RequestsInv /\ IdsInv
    BY <1>1 DEF SubmitInv, RequestsInv, IdsInv, SentInSessionTakenUp, ServerHeld
  <1>4. JobsInv
    <2>1. Jobs = {} /\ work = None
      BY EmptyQueue DEF Jobs
    <2> QED
      BY <2>1 DEF JobsInv, CleanIndexTellsParent, OneSession
  <1>5. PollInv
    BY DEF PollInv
  <1>6. RestInv
    BY SessionAssumption DEF RestInv
  <1>7. Flags
    BY Zenon DEF Flags
  <1> QED
    BY <1>2, <1>3, <1>4, <1>5, <1>6, <1>7 DEF Inv

LEMMA InvHolds == Spec => []Inv
  <1>1. Inv /\ [Next]_vars => Inv'
    BY SessionKept, SubmitKept, RequestsKept, IdsKept, JobsKept, PollKept, RestKept,
       FlagsKept
    DEF Inv
  <1> QED
    BY <1>1, InvInit, PTL DEF Spec

-----------------------------------------------------------------------------
(* The devices never mine with a notify of one session and the difficulty  *)
(* or extranonce of another (StratumConnectionData::update, clear).        *)
THEOREM OneSessionHolds == Spec => []OneSession
  BY InvHolds, PTL DEF Inv, JobsInv

(* A share taken up in one session is never sent in the next, although the *)
(* connection's id is read before server.m is locked                       *)
(* (MiningCoordinator::submit, ConnectionServer).                          *)
THEOREM SentInSessionTakenUpHolds == Spec => []SentInSessionTakenUp
  BY InvHolds, PTL DEF Inv, RequestsInv

(* Requests of a session have different ids, unless a submission came      *)
(* before the set-up was done (Connection::run, id_counter).               *)
THEOREM UniqueIdsHolds == Spec => []UniqueIds
  <1>1. Inv => UniqueIds
    BY DEF Inv, IdsInv, UniqueIds
  <1> QED
    BY <1>1, InvHolds, PTL

(* The clean index tells work for one tip from work for another, however   *)
(* the node's header and outages follow each other (assign_work).          *)
THEOREM CleanIndexTellsParentHolds == Spec => []CleanIndexTellsParent
  BY InvHolds, PTL DEF Inv, JobsInv

(* After a successful poll the devices stand still only at the header they *)
(* were stopped at (poll, stop_mining).                                    *)
THEOREM StandsStillKnownHolds == Spec => []StandsStillKnown
  <1>1. Inv => StandsStillKnown
    BY DEF Inv, PollInv, StandsStillKnown
  <1> QED
    BY <1>1, InvHolds, PTL

(* Every value of the coordinator and of the connection has its type.      *)
THEOREM TypeOKHolds == Spec => []TypeOK
  <1>1. ASSUME Inv PROVE StratumTypeOK
    <2>1. 0 \in Session /\ (conn # "none" => Current \in Session)
      BY <1>1, SessionAssumption DEF Inv, SessionInv, Session, Current
    <2>2. data \in Data
      <3>1. CASE conn = "none"
        BY <1>1, <2>1, <3>1 DEF Inv, SessionInv, Data
      <3>2. CASE conn # "none"
        BY <1>1, <2>1, <3>2 DEF Inv, SessionInv, Data
      <3> QED
        BY <3>1, <3>2
    <2>3. early \in BOOLEAN
      BY <1>1 DEF Inv, Flags
    <2> QED
      BY <1>1, <2>2, <2>3 DEF Inv, SessionInv, RequestsInv, StratumTypeOK
  <1>2. ASSUME Inv PROVE work \in Job \cup {None} /\ posting \in Job \cup {None}
    <2>1. Jobs \subseteq Job
      BY <1>2 DEF Inv, JobsInv, Job
    <2> QED
      BY <2>1 DEF Jobs
  <1>3. ASSUME Inv PROVE needsPoll \in BOOLEAN /\ due \in BOOLEAN
    BY <1>3 DEF Inv, Flags
  <1>4. Inv => TypeOK
    BY <1>1, <1>2, <1>3 DEF Inv, JobsInv, RestInv, TypeOK
  <1> QED
    BY <1>4, InvHolds, PTL

=============================================================================
