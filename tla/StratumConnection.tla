------------------------- MODULE StratumConnection -------------------------
(***************************************************************************)
(* Pool mining: the connections to the pool, one after the other, and what *)
(* the miner knows of the session (stratum/connection*.cpp,                *)
(* StratumConnectionData of device_pool.cpp).                              *)
(*                                                                         *)
(* The network thread makes a Connection, runs it until it is lost,        *)
(* destroys it and begins anew.  The handlers of messages run on it too:   *)
(* they update stratumConnectionData and, when difficulty, notify and      *)
(* subscription are there, install work on the devices.  The coordinator's *)
(* thread reads the connection's id and submits shares.                    *)
(*                                                                         *)
(* Mutex: server.m is held by the constructor, by the destructor and by a  *)
(* submission.  id_counter has none.  Values are reduced to the session    *)
(* they come from; a difficulty that changes is shared with the devices    *)
(* and changes nothing else.                                               *)
(***************************************************************************)
EXTENDS Integers, SequencesExt

CONSTANTS
    MaxSessions,   \* bound: connections made
    MaxFound,      \* bound: shares and blocks found
    None

ASSUME SessionAssumption == MaxSessions \in Nat \ {0} /\ MaxFound \in Nat

VARIABLES
    sessions,     \* connections made: idCounter
    conn,         \* where the current connection is
    idCounter,    \* its id_counter
    readId,       \* what run has read of it in an increment under way
    lines,        \* requests to be written
    wire,         \* requests written
    data,         \* stratumConnectionData
    work,         \* what the hasher's generator is made of
    submitting,   \* the coordinator's submission
    early         \* history: a submission took an id before run was done

connVars   == <<sessions, conn, idCounter, readId, lines, wire, early>>
stratumVars == <<connVars, data, work, submitting>>

Session == 0 .. MaxSessions - 1
Current == sessions - 1

(* "made": constructed; "run": before connecting; "subscribe" and          *)
(* "authorize": before these requests; "open": in context.run; "closed".   *)
Phase == {"none", "made", "run", "subscribe", "authorize", "open", "closed"}

Data == [id : Session, difficulty : Session \cup {None},
         notify : Session \cup {None}, subscription : Session \cup {None}]

StratumWork == [difficulty : Session, notify : Session, subscription : Session]

(* Faulty: the extranonce is kept.                                         *)
ClearedKeepingSubscription(id) ==
    [id |-> id, difficulty |-> None, notify |-> None,
     subscription |-> data.subscription]
(* Faulty: off by one.                                                     *)
ClearedNextId(id) ==
    [id |-> id + 1, difficulty |-> None, notify |-> None, subscription |-> None]

(* clear                                                                   *)
Cleared(id) ==
    [id |-> id, difficulty |-> None, notify |-> None, subscription |-> None]

InitStratum ==
    /\ sessions = 0 /\ conn = "none"
    /\ idCounter = 0 /\ readId = None /\ early = FALSE
    /\ lines = <<>> /\ wire = <<>>
    /\ data = [id |-> 0, difficulty |-> None, notify |-> None, subscription |-> None]
    /\ work = None /\ submitting = None

ServerHeld == submitting # None /\ submitting.at = "write"

(***************************************************************************)
(* The network thread                                                      *)
(***************************************************************************)
Construct ==
    /\ conn = "none" /\ ~ServerHeld
    /\ sessions < MaxSessions
    /\ sessions' = sessions + 1
    /\ conn' = "made"
    /\ idCounter' = 0 /\ early' = FALSE
    /\ data' = Cleared(sessions)
    /\ UNCHANGED <<readId, lines, wire, work, submitting>>

Run ==
    /\ conn = "made"
    /\ idCounter' = 0
    /\ conn' = "run"
    /\ UNCHANGED <<sessions, readId, lines, wire, early, data, work, submitting>>

(* connect may throw; context.run has nothing to wait for then.            *)
Connect ==
    /\ conn = "run"
    /\ conn' \in {"subscribe", "closed"}
    /\ UNCHANGED <<sessions, idCounter, readId, lines, wire, early, data, work, submitting>>

(* id_counter++, which another thread's increment may overlap.             *)
ReadIdCounter ==
    /\ conn \in {"subscribe", "authorize"} /\ readId = None
    /\ readId' = idCounter
    /\ UNCHANGED <<sessions, conn, idCounter, lines, wire, early, data, work, submitting>>

Request(kind, then) ==
    /\ conn = kind /\ readId # None
    /\ idCounter' = readId + 1 /\ readId' = None
    /\ lines' = Append(lines, [id |-> readId, kind |-> kind])
    /\ conn' = then
    /\ UNCHANGED <<sessions, wire, early, data, work, submitting>>

ProcessLines ==
    /\ conn = "open" /\ lines # <<>>
    /\ wire' = wire \o lines /\ lines' = <<>>
    /\ UNCHANGED <<sessions, conn, idCounter, readId, early, data, work, submitting>>

(* generator_args and assign_work, if there is all it takes.               *)
Install ==
    IF None \in {data'.difficulty, data'.notify, data'.subscription}
    THEN UNCHANGED work
    ELSE work' = [difficulty |-> data'.difficulty, notify |-> data'.notify,
                  subscription |-> data'.subscription]

Receiving == conn = "open" /\ UNCHANGED <<connVars, submitting>>

(* Faulty: the notify is only stored.                                      *)
ReceiveNotifyStoring ==
    /\ Receiving
    /\ data' = [data EXCEPT !.notify = Current]
    /\ UNCHANGED work

ReceiveNotify ==
    /\ Receiving
    /\ data' = [data EXCEPT !.notify = Current]
    /\ Install

(* Only the first difficulty of a session makes a generator.               *)
ReceiveDifficulty ==
    /\ Receiving
    /\ data.difficulty = None
    /\ data' = [data EXCEPT !.difficulty = Current]
    /\ Install

(* The reply to subscribe installs no work.  Replies to other requests     *)
(* with the same id have no array as their result and are ignored.         *)
ReceiveSubscription ==
    /\ Receiving
    /\ \E r \in ToSet(wire) : r.kind = "subscribe"
    /\ data' = [data EXCEPT !.subscription = Current]
    /\ UNCHANGED work

Lose ==
    /\ conn = "open"
    /\ conn' = "closed"
    /\ UNCHANGED <<sessions, idCounter, readId, lines, wire, early, data, work, submitting>>

Destroy ==
    /\ conn = "closed" /\ ~ServerHeld
    /\ conn' = "none"
    /\ data' = Cleared(0)
    /\ lines' = <<>> /\ wire' = <<>>
    /\ UNCHANGED <<sessions, idCounter, readId, early, work, submitting>>

Network ==
    \/ Construct \/ Run \/ Connect
    \/ ReadIdCounter \/ Request("subscribe", "authorize") \/ Request("authorize", "open")
    \/ ProcessLines
    \/ ReceiveNotify \/ ReceiveDifficulty \/ ReceiveSubscription
    \/ Lose \/ Destroy

(***************************************************************************)
(* Submission, on the coordinator's thread                                 *)
(***************************************************************************)
(* The id is read without a lock, before server.m is taken.                *)
BeginSubmit ==
    submitting' = [at |-> "lock", takenIn |-> Current, connectionId |-> data.id]

(* Faulty: a connection is enough.                                         *)
AcceptsAny(connectionId) == conn # "none"

Accepts(connectionId) == conn # "none" /\ connectionId = Current

(* A share for another connection is dropped.  Otherwise the id of the     *)
(* request is taken, under server.m.                                       *)
LockServer ==
    /\ submitting # None /\ submitting.at = "lock"
    /\ IF Accepts(submitting.connectionId)
       THEN /\ submitting' = [at |-> "write", takenIn |-> submitting.takenIn,
                              id |-> idCounter]
            /\ early' = (early \/ conn \notin {"open", "closed"})
       ELSE submitting' = None /\ UNCHANGED early
    /\ UNCHANGED <<sessions, conn, idCounter, readId, lines, wire, data, work>>

(* Faulty: the id is not counted up.                                       *)
WriteSubmissionSameId ==
    /\ ServerHeld
    /\ lines' = Append(lines, [id |-> submitting.id, kind |-> "submit",
                               takenIn |-> submitting.takenIn])
    /\ submitting' = None
    /\ UNCHANGED <<sessions, conn, idCounter, readId, wire, early, data, work>>

WriteSubmission ==
    /\ ServerHeld
    /\ idCounter' = submitting.id + 1
    /\ lines' = Append(lines, [id |-> submitting.id, kind |-> "submit",
                               takenIn |-> submitting.takenIn])
    /\ submitting' = None
    /\ UNCHANGED <<sessions, conn, readId, wire, early, data, work>>

(***************************************************************************)
(* Properties                                                              *)
(***************************************************************************)
Requests ==
    [id : Nat, kind : {"subscribe", "authorize"}]
    \cup [id : Nat, kind : {"submit"}, takenIn : Session]

StratumTypeOK ==
    /\ sessions \in 0 .. MaxSessions /\ conn \in Phase
    /\ idCounter \in Nat /\ readId \in Nat \cup {None}
    /\ lines \in Seq(Requests) /\ wire \in Seq(Requests)
    /\ data \in Data
    /\ early \in BOOLEAN

Sent == wire \o lines

(* The devices never mine with a notify of one session and the difficulty  *)
(* or the extranonce of another, although what is known of a session       *)
(* arrives piece by piece and sessions follow each other.                  *)
OneSession ==
    (work # None /\ "notify" \in DOMAIN work) =>
        work.difficulty = work.notify /\ work.subscription = work.notify

(* A share that the coordinator took up during one session is not sent in  *)
(* the next, although the id is read before server.m is taken.             *)
SentInSessionTakenUp ==
    \A i \in 1 .. Len(Sent) :
        Sent[i].kind = "submit" => Sent[i].takenIn = Current

(* Requests of a session have different ids, unless a share was submitted  *)
(* before the connection was set up (id_counter is set to zero again and   *)
(* has no lock).                                                           *)
UniqueIds ==
    ~early => \A i, j \in 1 .. Len(Sent) : i # j => Sent[i].id # Sent[j].id
=============================================================================
