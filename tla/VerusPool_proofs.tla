--------------------------- MODULE VerusPool_proofs ---------------------------
(***************************************************************************)
(* Proofs, for any number of workers, of jobs and of results, that no      *)
(* wake-up of a CPU worker is lost, that the queue's numbers stay exact,   *)
(* and that pushing and popping implement the abstract queue of candidates.*)
(***************************************************************************)
EXTENDS VerusPool, DataLemmas

(* The part of the types the argument needs.                               *)
WakeTypeOK ==
    /\ toWake \in SUBSET Worker
    /\ pc \in [Worker -> {"wait", "pop", "mine"}]

(* A worker that is not waiting goes back to work when it is done: only    *)
(* the look at an empty queue resets continueMining.  Without this a       *)
(* worker that has mined its batches could fall asleep beside a full queue.*)
KeepsWorking == \A w \in Worker : pc[w] # "wait" => w \in continue

WakeInv == WakeTypeOK /\ KeepsWorking /\ NoLostWakeup

(* Everybody sleeps at the start, and the queue is empty.                  *)
LEMMA WakeInit == Init => WakeInv
BY DEF Init, WakeInv, WakeTypeOK, KeepsWorking, NoLostWakeup

(* Each step of each thread preserves the invariant.                       *)
LEMMA WakeStep == WakeInv /\ [Next]_vars => WakeInv'
<1> SUFFICES ASSUME WakeInv, [Next]_vars
             PROVE  WakeInv'
  OBVIOUS
<1> USE DEF WakeInv, WakeTypeOK, KeepsWorking, NoLostWakeup, Attentive
<1>1. ASSUME NEW n \in 0 .. MaxResults, Push(n)
      PROVE  WakeInv'
  <2>1. toWake' # {}
    BY <1>1, WorkerAssumption DEF Push
  <2>2. WakeTypeOK' /\ KeepsWorking'
    BY <1>1 DEF Push, workerVars
  <2> QED
    BY <2>1, <2>2
<1>2. ASSUME NEW w \in Worker, WakeUp(w)
      PROVE  WakeInv'
  <2>1. Attentive(w)'
    BY <1>2 DEF WakeUp
  <2>2. WakeTypeOK' /\ KeepsWorking'
    BY <1>2 DEF WakeUp
  <2> QED
    BY <2>1, <2>2
<1>3. ASSUME NEW w \in Worker, TakeEvents(w)
      PROVE  WakeInv'
  <2>1. Attentive(w)'
    BY <1>3 DEF TakeEvents
  <2>2. WakeTypeOK' /\ KeepsWorking'
    BY <1>3 DEF TakeEvents
  <2> QED
    BY <2>1, <2>2
<1>4. ASSUME NEW w \in Worker, PopNothing(w)
      PROVE  WakeInv'
  <2>1. queue' = <<>>
    BY <1>4 DEF PopNothing, queueVars
  <2>2. WakeTypeOK' /\ KeepsWorking'
    BY <1>4 DEF PopNothing
  <2> QED
    BY <2>1, <2>2
<1>5. ASSUME NEW w \in Worker, Pop(w)
      PROVE  WakeInv'
  <2>1. Attentive(w)'
    BY <1>5 DEF Pop
  <2>2. WakeTypeOK' /\ KeepsWorking'
    BY <1>5 DEF Pop
  <2> QED
    BY <2>1, <2>2
<1>6. ASSUME NEW w \in Worker, PopAborts(w)
      PROVE  WakeInv'
  BY <1>6 DEF PopAborts, queueVars, workerVars
<1>7. ASSUME NEW w \in Worker, Mine(w)
      PROVE  WakeInv'
  <2>1. Attentive(w)'
    BY <1>7 DEF Mine
  <2>2. WakeTypeOK' /\ KeepsWorking'
    BY <1>7 DEF Mine
  <2> QED
    BY <2>1, <2>2
<1>8. CASE UNCHANGED vars
  BY <1>8 DEF vars, queueVars, workerVars
<1> QED
  BY <1>1, <1>2, <1>3, <1>4, <1>5, <1>6, <1>7, <1>8 DEF Next, Run

(* While candidates wait in the queue, a worker is at work or about to be  *)
(* woken (JobQueue, VerusPool::push_job, Worker::work), for any number of  *)
(* workers.                                                                *)
THEOREM NoLostWakeupHolds == Spec => []NoLostWakeup
<1>1. WakeInv => NoLostWakeup
  BY DEF WakeInv
<1> QED
  BY WakeInit, WakeStep, <1>1, PTL DEF Spec

-----------------------------------------------------------------------------
(***************************************************************************)
(* The candidates of jobs and batches                                      *)
(***************************************************************************)
Candidate == Job \X Nat

(* n candidates of a job, from a number on.                                *)
Piece(id, from, n) == [k \in 1 .. n |-> <<id, from + k - 1>>]

(* The candidates left of each job in q if c of the first one are popped.  *)
Pieces(q, c) ==
    [i \in DOMAIN q |->
        LET done == IF i = 1 THEN c ELSE 0
        IN  Piece(q[i].id, done, q[i].size - done)]
Waiting(q, c) == FlattenSeq(Pieces(q, c))

BatchPieces(bs) == [i \in DOMAIN bs |-> Piece(bs[i].id, bs[i].offset, bs[i].len)]

Sizes(q) == [i \in DOMAIN q |-> q[i].size]

CursorOK(q, c) ==
    /\ q = <<>> => c = 0
    /\ q # <<>> => c < Head(q).size

LEMMA PieceType ==
    ASSUME NEW id \in Job, NEW from \in Nat, NEW n \in Nat
    PROVE  /\ Piece(id, from, n) \in Seq(Candidate) /\ Len(Piece(id, from, n)) = n
           /\ n > 0 => Piece(id, from, n) # <<>>
<1>1. \A k \in 1 .. n : <<id, from + k - 1>> \in Candidate
  BY DEF Candidate
<1>2. Piece(id, from, n) \in [1 .. n -> Candidate]
  BY <1>1 DEF Piece
<1>3. Piece(id, from, n) \in Seq(Candidate) /\ Len(Piece(id, from, n)) = n
  BY <1>2
<1> QED
  BY <1>3

LEMMA PieceSplit ==
    ASSUME NEW id \in Job, NEW from \in Nat, NEW n \in Nat, NEW m \in 0 .. n
    PROVE  Piece(id, from, n) = Piece(id, from, m) \o Piece(id, from + m, n - m)
<1> DEFINE p == Piece(id, from, n)  a == Piece(id, from, m)
           b == Piece(id, from + m, n - m)
<1>1. /\ a \in Seq(Candidate) /\ Len(a) = m
      /\ b \in Seq(Candidate) /\ Len(b) = n - m
      /\ p \in Seq(Candidate) /\ Len(p) = n
  <2>1. m \in Nat /\ n - m \in Nat /\ from + m \in Nat
    OBVIOUS
  <2> QED
    BY <2>1, PieceType
<1>2. /\ \A k \in 1 .. n : p[k] = <<id, from + k - 1>>
      /\ \A k \in 1 .. m : a[k] = <<id, from + k - 1>>
      /\ \A k \in 1 .. n - m : b[k] = <<id, from + m + k - 1>>
  <2>1. \A f, l : \A k \in 1 .. l : Piece(id, f, l)[k] = <<id, f + k - 1>>
    BY Zenon DEF Piece
  <2> QED
    BY <2>1, Zenon
<1> HIDE DEF p, a, b
<1>3. /\ a \o b \in Seq(Candidate) /\ Len(a \o b) = n
      /\ \A k \in 1 .. n : (a \o b)[k] = IF k <= m THEN a[k] ELSE b[k - m]
  BY <1>1, ConcatProperties
<1>4. \A k \in 1 .. n : p[k] = (a \o b)[k]
  <2> SUFFICES ASSUME NEW k \in 1 .. n PROVE p[k] = (a \o b)[k]
    OBVIOUS
  <2>1. CASE k <= m
    <3>1. k \in 1 .. m /\ (a \o b)[k] = a[k]
      BY <1>3, <2>1
    <3> QED
      BY <1>2, <3>1, Zenon
  <2>2. CASE ~(k <= m)
    <3>1. k - m \in 1 .. n - m /\ from + m + (k - m) - 1 = from + k - 1
      BY <2>2
    <3>2. b[k - m] = <<id, from + m + (k - m) - 1>>
      BY <1>2, <3>1, Zenon
    <3>3. (a \o b)[k] = b[k - m]
      BY <1>3, <2>2
    <3> QED
      BY <1>2, <3>1, <3>2, <3>3, Zenon
  <2> QED
    BY <2>1, <2>2
<1>5. p = a \o b
  BY <1>1, <1>3, <1>4, SeqEqual
<1> QED
  BY <1>5 DEF p, a, b

LEMMA PiecesType ==
    ASSUME NEW q \in Seq(Entry), NEW c \in Nat, CursorOK(q, c)
    PROVE  Pieces(q, c) \in Seq(Seq(Candidate)) /\ Len(Pieces(q, c)) = Len(q)
<1>1. \A i \in 1 .. Len(q) : q[i] \in Entry
  BY ElementOfSeq
<1>2. ASSUME NEW i \in 1 .. Len(q)
      PROVE  /\ q[i].id \in Job /\ (IF i = 1 THEN c ELSE 0) \in Nat
             /\ q[i].size - (IF i = 1 THEN c ELSE 0) \in Nat
  <2>1. i = 1 => c < q[i].size
    BY DEF CursorOK
  <2> QED
    BY <1>1, <2>1, BoundAssumption DEF Entry
<1>3. \A i \in 1 .. Len(q) :
         Piece(q[i].id, IF i = 1 THEN c ELSE 0, q[i].size - (IF i = 1 THEN c ELSE 0))
            \in Seq(Candidate)
  BY <1>2, PieceType
<1>4. DOMAIN q = 1 .. Len(q) /\ Len(q) \in Nat
  OBVIOUS
<1> DEFINE Q == Seq(Candidate)
<1> HIDE DEF Q
<1>5. Pieces(q, c) \in [1 .. Len(q) -> Q]
  BY <1>3, <1>4 DEF Pieces, Q
<1>6. Pieces(q, c) \in Seq(Q) /\ Len(Pieces(q, c)) = Len(q)
  BY <1>4, <1>5
<1> QED
  BY <1>6 DEF Q

LEMMA BatchPiecesType ==
    ASSUME NEW bs \in Seq(Batch)
    PROVE  BatchPieces(bs) \in Seq(Seq(Candidate)) /\ Len(BatchPieces(bs)) = Len(bs)
<1>1. \A i \in 1 .. Len(bs) : bs[i] \in Batch
  BY ElementOfSeq
<1>2. \A i \in 1 .. Len(bs) : bs[i].id \in Job /\ bs[i].offset \in Nat /\ bs[i].len \in Nat
  BY <1>1, BoundAssumption DEF Batch
<1>3. \A i \in 1 .. Len(bs) : Piece(bs[i].id, bs[i].offset, bs[i].len) \in Seq(Candidate)
  BY <1>2, PieceType
<1>4. DOMAIN bs = 1 .. Len(bs) /\ Len(bs) \in Nat
  OBVIOUS
<1> DEFINE Q == Seq(Candidate)
<1> HIDE DEF Q
<1>5. BatchPieces(bs) \in [1 .. Len(bs) -> Q]
  BY <1>3, <1>4 DEF BatchPieces, Q
<1>6. BatchPieces(bs) \in Seq(Q) /\ Len(BatchPieces(bs)) = Len(bs)
  BY <1>4, <1>5
<1> QED
  BY <1>6 DEF Q

LEMMA Joinables == Joinable(Seq(Candidate))
BY SeqJoinable

LEMMA CandidatesOfPieces ==
    ASSUME NEW bs
    PROVE  CandidatesOf(bs) = FlattenSeq(BatchPieces(bs))
BY DEF CandidatesOf, BatchPieces, Piece

LEMMA PendingIsWaiting == PendingCandidates = Waiting(queue, cursor)
BY DEF PendingCandidates, Waiting, Pieces, Piece

LEMMA WaitingType ==
    ASSUME NEW q \in Seq(Entry), NEW c \in Nat, CursorOK(q, c)
    PROVE  Waiting(q, c) \in Seq(Candidate)
BY PiecesType, FlattenType, Joinables DEF Waiting

LEMMA CandidatesType ==
    ASSUME NEW bs \in Seq(Batch)
    PROVE  CandidatesOf(bs) \in Seq(Candidate)
BY BatchPiecesType, FlattenType, Joinables, CandidatesOfPieces

(* The candidates of the oldest job come first.                            *)
LEMMA WaitingHead ==
    ASSUME NEW q \in Seq(Entry), NEW c \in Nat, CursorOK(q, c), q # <<>>
    PROVE  Waiting(q, c) = Piece(Head(q).id, c, Head(q).size - c) \o Waiting(Tail(q), 0)
<1>1. /\ Tail(q) \in Seq(Entry) /\ Len(Tail(q)) = Len(q) - 1 /\ Len(q) \in Nat \ {0}
      /\ \A i \in 1 .. Len(q) - 1 : Tail(q)[i] = q[i + 1]
      /\ Head(q) = q[1]
  OBVIOUS
<1>2. CursorOK(Tail(q), 0)
  <2>1. \A e \in Entry : 0 < e.size
    BY BoundAssumption DEF Entry
  <2>2. Tail(q) # <<>> => Head(Tail(q)) \in Entry
    BY <1>1
  <2> QED
    BY <2>1, <2>2 DEF CursorOK
<1>3. /\ Pieces(q, c) \in Seq(Seq(Candidate)) /\ Len(Pieces(q, c)) = Len(q)
      /\ Pieces(Tail(q), 0) \in Seq(Seq(Candidate))
      /\ Len(Pieces(Tail(q), 0)) = Len(q) - 1
  BY <1>1, <1>2, PiecesType
<1>4. Pieces(q, c)[1] = Piece(Head(q).id, c, Head(q).size - c)
  BY <1>1 DEF Pieces
<1>5. \A i \in 1 .. Len(q) - 1 : Pieces(q, c)[i + 1] = Pieces(Tail(q), 0)[i]
  <2> SUFFICES ASSUME NEW i \in 1 .. Len(q) - 1
               PROVE  Pieces(q, c)[i + 1] = Pieces(Tail(q), 0)[i]
    OBVIOUS
  <2>1. i + 1 \in DOMAIN q /\ i \in DOMAIN Tail(q) /\ i + 1 # 1
    BY <1>1
  <2>2. Pieces(q, c)[i + 1] = Piece(q[i + 1].id, 0, q[i + 1].size - 0)
    BY <2>1 DEF Pieces
  <2>3. Pieces(Tail(q), 0)[i] = Piece(Tail(q)[i].id, 0, Tail(q)[i].size - 0)
    BY <2>1 DEF Pieces
  <2> QED
    BY <1>1, <2>2, <2>3
<1> DEFINE Q == Seq(Candidate)  ps == Pieces(q, c)  ts == Pieces(Tail(q), 0)
<1>6. ps \in Seq(Q) /\ ts \in Seq(Q) /\ Joinable(Q)
  BY <1>3, Joinables
<1> HIDE DEF Q, ps, ts
<1>7. Len(ps) = Len(q) /\ Len(ts) = Len(q) - 1 /\ \A i \in 1 .. Len(q) - 1 : ps[i + 1] = ts[i]
  BY <1>3, <1>5 DEF ps, ts
<1>8. ps # <<>>
  BY <1>1, <1>7
<1>9. Tail(ps) = ts /\ Head(ps) = ps[1]
  <2>1. /\ Tail(ps) \in Seq(Q) /\ Len(Tail(ps)) = Len(ps) - 1
        /\ \A i \in 1 .. Len(ps) - 1 : Tail(ps)[i] = ps[i + 1]
    BY <1>6, <1>8
  <2>2. Tail(ps) = ts
    BY <1>6, <1>7, <2>1, SeqEqual
  <2> QED
    BY <1>6, <2>2
<1>10. FlattenSeq(ps) = Head(ps) \o FlattenSeq(Tail(ps))
  BY <1>6, <1>8, FlattenCons
<1> QED
  BY <1>4, <1>9, <1>10 DEF Waiting, ps, ts

(* A new job's candidates come last.                                       *)
LEMMA WaitingAppend ==
    ASSUME NEW q \in Seq(Entry), NEW c \in Nat, CursorOK(q, c), NEW j \in Entry
    PROVE  Waiting(Append(q, j), c) = Waiting(q, c) \o Piece(j.id, 0, j.size)
<1>1. /\ Append(q, j) \in Seq(Entry) /\ Len(Append(q, j)) = Len(q) + 1 /\ Len(q) \in Nat
      /\ \A i \in 1 .. Len(q) : Append(q, j)[i] = q[i]
      /\ Append(q, j)[Len(q) + 1] = j
      /\ DOMAIN q = 1 .. Len(q) /\ DOMAIN Append(q, j) = 1 .. Len(q) + 1
  OBVIOUS
<1>2. CursorOK(Append(q, j), c)
  <2>1. CASE q = <<>>
    <3>1. c = 0 /\ Head(Append(q, j)) = j /\ j.size > 0
      BY <2>1, BoundAssumption DEF CursorOK, Entry
    <3> QED
      BY <3>1 DEF CursorOK
  <2>2. CASE q # <<>>
    BY <2>2 DEF CursorOK
  <2> QED
    BY <2>1, <2>2
<1>3. /\ Pieces(q, c) \in Seq(Seq(Candidate)) /\ Len(Pieces(q, c)) = Len(q)
      /\ Pieces(Append(q, j), c) \in Seq(Seq(Candidate))
      /\ Len(Pieces(Append(q, j), c)) = Len(q) + 1
  BY <1>1, <1>2, PiecesType
<1>4. \A i \in 1 .. Len(q) : Pieces(Append(q, j), c)[i] = Pieces(q, c)[i]
  BY <1>1 DEF Pieces
<1>5. Pieces(Append(q, j), c)[Len(q) + 1] = Piece(j.id, 0, j.size)
  <2>1. Len(q) + 1 = 1 => c = 0
    BY <1>1 DEF CursorOK
  <2>2. j.size - 0 = j.size
    BY BoundAssumption DEF Entry
  <2> QED
    BY <1>1, <2>1, <2>2 DEF Pieces
<1>6. Piece(j.id, 0, j.size) \in Seq(Candidate)
  <2>1. j.id \in Job /\ j.size \in Nat
    BY BoundAssumption DEF Entry
  <2> QED
    BY <2>1, PieceType
<1> DEFINE Q == Seq(Candidate)  ps == Pieces(Append(q, j), c)  ts == Pieces(q, c)
           p == Piece(j.id, 0, j.size)
<1>7. ps \in Seq(Q) /\ ts \in Seq(Q) /\ p \in Q /\ Joinable(Q)
  BY <1>3, <1>6, Joinables
<1> HIDE DEF Q, ps, ts, p
<1>8. /\ Len(ps) = Len(q) + 1 /\ Len(ts) = Len(q) /\ ps[Len(q) + 1] = p
      /\ \A i \in 1 .. Len(q) : ps[i] = ts[i]
  BY <1>3, <1>4, <1>5 DEF ps, ts, p
<1>9. ps = Append(ts, p)
  <2>1. /\ Append(ts, p) \in Seq(Q) /\ Len(Append(ts, p)) = Len(ts) + 1
        /\ Append(ts, p)[Len(ts) + 1] = p
        /\ \A i \in 1 .. Len(ts) : Append(ts, p)[i] = ts[i]
    BY <1>7
  <2>2. \A i \in 1 .. Len(q) + 1 : ps[i] = Append(ts, p)[i]
    BY <1>1, <1>8, <2>1
  <2> QED
    BY <1>7, <1>8, <2>1, <2>2, SeqEqual
<1>10. FlattenSeq(ps) = FlattenSeq(ts) \o p
  BY <1>7, <1>9, FlattenAppend
<1> QED
  BY <1>10 DEF Waiting, ps, ts, p

(* A worker's batches grow by the candidates of the batch that is added.   *)
LEMMA CandidatesAppend ==
    ASSUME NEW bs \in Seq(Batch), NEW b \in Batch
    PROVE  CandidatesOf(Append(bs, b)) = CandidatesOf(bs) \o Piece(b.id, b.offset, b.len)
<1>1. /\ Append(bs, b) \in Seq(Batch) /\ Len(Append(bs, b)) = Len(bs) + 1 /\ Len(bs) \in Nat
      /\ \A i \in 1 .. Len(bs) : Append(bs, b)[i] = bs[i]
      /\ Append(bs, b)[Len(bs) + 1] = b
      /\ DOMAIN bs = 1 .. Len(bs) /\ DOMAIN Append(bs, b) = 1 .. Len(bs) + 1
  OBVIOUS
<1>2. /\ BatchPieces(bs) \in Seq(Seq(Candidate)) /\ Len(BatchPieces(bs)) = Len(bs)
      /\ BatchPieces(Append(bs, b)) \in Seq(Seq(Candidate))
      /\ Len(BatchPieces(Append(bs, b))) = Len(bs) + 1
  BY <1>1, BatchPiecesType
<1>3. /\ \A i \in 1 .. Len(bs) : BatchPieces(Append(bs, b))[i] = BatchPieces(bs)[i]
      /\ BatchPieces(Append(bs, b))[Len(bs) + 1] = Piece(b.id, b.offset, b.len)
  BY <1>1 DEF BatchPieces
<1>4. Piece(b.id, b.offset, b.len) \in Seq(Candidate)
  <2>1. b.id \in Job /\ b.offset \in Nat /\ b.len \in Nat
    BY BoundAssumption DEF Batch
  <2> QED
    BY <2>1, PieceType
<1> DEFINE Q == Seq(Candidate)  ps == BatchPieces(Append(bs, b))
           ts == BatchPieces(bs)  p == Piece(b.id, b.offset, b.len)
<1>5. ps \in Seq(Q) /\ ts \in Seq(Q) /\ p \in Q /\ Joinable(Q)
  BY <1>2, <1>4, Joinables
<1> HIDE DEF Q, ps, ts, p
<1>6. /\ Len(ps) = Len(bs) + 1 /\ Len(ts) = Len(bs) /\ ps[Len(bs) + 1] = p
      /\ \A i \in 1 .. Len(bs) : ps[i] = ts[i]
  BY <1>2, <1>3 DEF ps, ts, p
<1>7. ps = Append(ts, p)
  <2>1. /\ Append(ts, p) \in Seq(Q) /\ Len(Append(ts, p)) = Len(ts) + 1
        /\ Append(ts, p)[Len(ts) + 1] = p
        /\ \A i \in 1 .. Len(ts) : Append(ts, p)[i] = ts[i]
    BY <1>5
  <2>2. \A i \in 1 .. Len(bs) + 1 : ps[i] = Append(ts, p)[i]
    BY <1>1, <1>6, <2>1
  <2> QED
    BY <1>5, <1>6, <2>1, <2>2, SeqEqual
<1>8. FlattenSeq(ps) = FlattenSeq(ts) \o p
  BY <1>5, <1>7, FlattenAppend
<1> QED
  BY <1>8, CandidatesOfPieces DEF ps, ts, p

LEMMA CandidatesNone == CandidatesOf(<<>>) = <<>>
<1>1. BatchPieces(<<>>) = <<>>
  BY DEF BatchPieces
<1> QED
  BY <1>1, CandidatesOfPieces, FlattenEmpty

LEMMA WaitingNone == \A c : Waiting(<<>>, c) = <<>>
<1>1. \A c : Pieces(<<>>, c) = <<>>
  BY DEF Pieces
<1> QED
  BY <1>1, FlattenEmpty DEF Waiting

(* The sizes of the jobs in the queue.                                     *)
LEMMA SizesType ==
    ASSUME NEW q \in Seq(Entry)
    PROVE  Sizes(q) \in Seq(Int) /\ Len(Sizes(q)) = Len(q) /\ SumFunction(Sizes(q)) \in Int
<1>1. \A i \in 1 .. Len(q) : q[i].size \in Int
  <2>1. \A i \in 1 .. Len(q) : q[i] \in Entry
    OBVIOUS
  <2> QED
    BY <2>1, BoundAssumption DEF Entry
<1>2. DOMAIN q = 1 .. Len(q) /\ Len(q) \in Nat
  OBVIOUS
<1>3. Sizes(q) \in [1 .. Len(q) -> Int]
  BY <1>1, <1>2 DEF Sizes
<1>4. Sizes(q) \in Seq(Int) /\ Len(Sizes(q)) = Len(q)
  BY <1>2, <1>3
<1> QED
  BY <1>4, SumSeqType

LEMMA SizesAppend ==
    ASSUME NEW q \in Seq(Entry), NEW j \in Entry
    PROVE  SumFunction(Sizes(Append(q, j))) = SumFunction(Sizes(q)) + j.size
<1>1. Append(q, j) \in Seq(Entry) /\ Len(Append(q, j)) = Len(q) + 1 /\ Len(q) \in Nat
  OBVIOUS
<1>2. j.size \in Int
  BY BoundAssumption DEF Entry
<1>3. /\ Sizes(q) \in Seq(Int) /\ Len(Sizes(q)) = Len(q)
      /\ Sizes(Append(q, j)) \in Seq(Int) /\ Len(Sizes(Append(q, j))) = Len(q) + 1
  BY <1>1, SizesType
<1>4. \A i \in 1 .. Len(q) + 1 :
         Sizes(Append(q, j))[i] = IF i <= Len(q) THEN Sizes(q)[i] ELSE j.size
  BY <1>1 DEF Sizes
<1>5. Sizes(Append(q, j)) = Append(Sizes(q), j.size)
  <2> DEFINE a == Sizes(q)  b == Sizes(Append(q, j))  d == j.size
  <2>1. a \in Seq(Int) /\ b \in Seq(Int) /\ d \in Int
        /\ Len(a) = Len(q) /\ Len(b) = Len(q) + 1
        /\ \A i \in 1 .. Len(q) + 1 : b[i] = IF i <= Len(q) THEN a[i] ELSE d
    BY <1>2, <1>3, <1>4
  <2> HIDE DEF a, b, d
  <2>2. b = Append(a, d)
    <3>1. /\ Append(a, d) \in Seq(Int) /\ Len(Append(a, d)) = Len(b)
          /\ \A i \in 1 .. Len(b) : b[i] = Append(a, d)[i]
      BY <1>1, <2>1
    <3> QED
      BY <2>1, <3>1, SeqEqual
  <2> QED
    BY <2>2 DEF a, b, d
<1> QED
  BY <1>2, <1>3, <1>5, SumAppend

LEMMA SizesTail ==
    ASSUME NEW q \in Seq(Entry), q # <<>>
    PROVE  SumFunction(Sizes(q)) = Head(q).size + SumFunction(Sizes(Tail(q)))
<1>1. /\ Tail(q) \in Seq(Entry) /\ Len(Tail(q)) = Len(q) - 1 /\ Len(q) \in Nat \ {0}
      /\ \A i \in 1 .. Len(q) - 1 : Tail(q)[i] = q[i + 1]
      /\ Head(q) = q[1]
  OBVIOUS
<1>2. /\ Sizes(q) \in Seq(Int) /\ Len(Sizes(q)) = Len(q)
      /\ Sizes(Tail(q)) \in Seq(Int) /\ Len(Sizes(Tail(q))) = Len(q) - 1
  BY <1>1, SizesType
<1>3. Sizes(q)[1] = Head(q).size
  BY <1>1 DEF Sizes
<1>4. \A i \in 1 .. Len(q) - 1 : Sizes(Tail(q))[i] = Sizes(q)[i + 1]
  BY <1>1 DEF Sizes
<1>5. Tail(Sizes(q)) = Sizes(Tail(q)) /\ Head(Sizes(q)) = Head(q).size /\ Sizes(q) # <<>>
  <2> DEFINE a == Sizes(q)  b == Sizes(Tail(q))
  <2>1. a \in Seq(Int) /\ b \in Seq(Int)
        /\ Len(a) = Len(q) /\ Len(b) = Len(q) - 1 /\ a[1] = Head(q).size
        /\ \A i \in 1 .. Len(q) - 1 : b[i] = a[i + 1]
    BY <1>2, <1>3, <1>4
  <2> HIDE DEF a, b
  <2>2. a # <<>> /\ Head(a) = a[1]
    BY <1>1, <2>1
  <2>3. /\ Tail(a) \in Seq(Int) /\ Len(Tail(a)) = Len(b)
        /\ \A i \in 1 .. Len(b) : Tail(a)[i] = b[i]
    BY <1>1, <2>1, <2>2
  <2>4. Tail(a) = b
    BY <2>1, <2>3, SeqEqual
  <2> QED
    BY <2>1, <2>2, <2>4 DEF a, b
<1> QED
  BY <1>2, <1>5, SumTail

-----------------------------------------------------------------------------
(***************************************************************************)
(* The loop of pop                                                         *)
(***************************************************************************)
(* What holds of the loop's variables before and after each of its turns:  *)
(* the batches made so far and what is left in the queue are, in order,    *)
(* the candidates there were when the loop began.                          *)
PopState ==
    {s \in [batches : Seq(Batch), total : Nat, watermark : Int, cursor : Nat,
            queue : Seq(Entry)] :
        /\ CursorOK(s.queue, s.cursor)
        /\ s.watermark = SumFunction(Sizes(s.queue)) - s.cursor
        /\ CandidatesOf(s.batches) \o Waiting(s.queue, s.cursor) = Waiting(queue, cursor)
        /\ s.total > 0 => CandidatesOf(s.batches) # <<>>
        /\ s.total = 0 => s.queue = queue}

PopStart == [batches |-> <<>>, total |-> 0, watermark |-> watermark,
             cursor |-> cursor, queue |-> queue]

(* A turn of the loop keeps that, and takes at least one candidate.        *)
LEMMA PopTurn ==
    ASSUME NEW s \in PopState, NEW N \in Nat, s.total < N, s.queue # <<>>
    PROVE  PopSome(s, N) \in PopState /\ PopSome(s, N).total > 0
<1> DEFINE q == s.queue  c == s.cursor  job == Head(q)
           M == Least(N - s.total, job.size - c)
           b == [id |-> job.id, offset |-> c, len |-> M]
           used == c + M = job.size
           q2 == IF used THEN Tail(q) ELSE q
           c2 == IF used THEN 0 ELSE c + M
<1>1. /\ s.batches \in Seq(Batch) /\ s.total \in Nat /\ s.watermark \in Int
      /\ c \in Nat /\ q \in Seq(Entry) /\ CursorOK(q, c)
      /\ s.watermark = SumFunction(Sizes(q)) - c
      /\ CandidatesOf(s.batches) \o Waiting(q, c) = Waiting(queue, cursor)
  BY DEF PopState
<1>2. PopSome(s, N) = [batches |-> Append(s.batches, b), total |-> s.total + M,
                       watermark |-> s.watermark - M, cursor |-> c2, queue |-> q2]
  BY DEF PopSome
<1>3. q # <<>>
  OBVIOUS
<1> HIDE DEF q, c
<1>4. /\ job \in Entry /\ c < job.size /\ Tail(q) \in Seq(Entry)
      /\ (Tail(q) # <<>> => Head(Tail(q)) \in Entry)
  BY <1>1, <1>3 DEF CursorOK
<1>5. \A e \in Entry : e.id \in Job /\ e.size \in Nat /\ 0 < e.size /\ e.size <= MaxResults
  BY BoundAssumption DEF Entry
<1> HIDE DEF job
<1>6. M \in Nat /\ 0 < M /\ c + M <= job.size /\ M \in 0 .. job.size - c
  <2>1. job.size \in Nat /\ c \in Nat /\ c < job.size
    BY <1>1, <1>4, <1>5
  <2>2. s.total \in Nat /\ s.total < N
    BY <1>1
  <2> DEFINE rest == N - s.total  left == job.size - c
  <2>3. rest \in Nat /\ 0 < rest /\ left \in Nat /\ 0 < left /\ c + left = job.size
    BY <2>1, <2>2
  <2> HIDE DEF rest, left
  <2>4. M = Least(rest, left)
    BY DEF rest, left
  <2>5. M \in Nat /\ 0 < M /\ M <= left
    BY <2>3, <2>4 DEF Least
  <2>6. M \in 0 .. left /\ c + M <= c + left
    <3> HIDE DEF M
    <3> QED
      BY <2>1, <2>3, <2>5
  <2> QED
    BY <2>3, <2>5, <2>6 DEF left
<1> HIDE DEF M
<1>7. b \in Batch /\ b.id = job.id /\ b.offset = c /\ b.len = M
  <2>1. c \in 0 .. MaxResults /\ M \in 0 .. MaxResults /\ job.id \in Job
    BY <1>1, <1>4, <1>5, <1>6, BoundAssumption
  <2> QED
    BY <2>1 DEF Batch
<1> HIDE DEF b
<1>8. q2 \in Seq(Entry) /\ c2 \in Nat /\ CursorOK(q2, c2)
  <2>1. CASE used
    <3>1. CursorOK(Tail(q), 0)
      BY <1>4, <1>5 DEF CursorOK
    <3> QED
      BY <1>4, <2>1, <3>1
  <2>2. CASE ~used
    <3>1. CursorOK(q, c + M)
      BY <1>1, <1>3, <1>4, <1>5, <1>6, <2>2 DEF CursorOK, job
    <3> QED
      BY <1>1, <1>6, <2>2, <3>1
  <2> QED
    BY <2>1, <2>2
<1>9. s.watermark - M = SumFunction(Sizes(q2)) - c2
  <2>1. /\ SumFunction(Sizes(q)) = job.size + SumFunction(Sizes(Tail(q)))
        /\ SumFunction(Sizes(q)) \in Int /\ SumFunction(Sizes(Tail(q))) \in Int
    BY <1>1, <1>3, <1>4, SizesTail, SizesType DEF job
  <2>2. CASE used
    BY <1>1, <1>4, <1>5, <1>6, <2>1, <2>2
  <2>3. CASE ~used
    BY <1>1, <1>4, <1>5, <1>6, <2>1, <2>3
  <2> QED
    BY <2>2, <2>3
<1>10. Waiting(q, c) = Piece(job.id, c, M) \o Waiting(q2, c2)
  <2>1. Waiting(q, c) = Piece(job.id, c, job.size - c) \o Waiting(Tail(q), 0)
    BY <1>1, <1>3, WaitingHead DEF job
  <2>2. CASE used
    <3>1. M = job.size - c
      BY <1>1, <1>4, <1>5, <1>6, <2>2
    <3> QED
      BY <2>1, <2>2, <3>1
  <2>3. CASE ~used
    <3>1. CursorOK(q, c + M) /\ c + M \in Nat
      BY <1>8, <2>3
    <3>2. Waiting(q, c + M)
             = Piece(job.id, c + M, job.size - (c + M)) \o Waiting(Tail(q), 0)
      BY <1>1, <1>3, <3>1, WaitingHead DEF job
    <3>3. job.size - (c + M) = (job.size - c) - M
      BY <1>1, <1>4, <1>5, <1>6
    <3>4. job.size - c \in Nat
      BY <1>1, <1>4, <1>5
    <3>5. Piece(job.id, c, job.size - c)
             = Piece(job.id, c, M) \o Piece(job.id, c + M, (job.size - c) - M)
      BY <1>1, <1>4, <1>5, <1>6, <3>4, PieceSplit
    <3>6. CursorOK(Tail(q), 0)
      BY <1>4, <1>5 DEF CursorOK
    <3> DEFINE x == Piece(job.id, c, M)
               y == Piece(job.id, c + M, (job.size - c) - M)
               z == Waiting(Tail(q), 0)
    <3>7. x \in Seq(Candidate) /\ y \in Seq(Candidate) /\ z \in Seq(Candidate)
      <4>1. (job.size - c) - M \in Nat /\ job.id \in Job
        BY <1>1, <1>4, <1>5, <1>6
      <4>2. z \in Seq(Candidate)
        BY <1>4, <3>6, WaitingType
      <4> QED
        BY <1>1, <1>6, <3>1, <4>1, <4>2, PieceType
    <3> HIDE DEF x, y, z
    <3>8. (x \o y) \o z = x \o (y \o z)
      BY <3>7, ConcatAssociative
    <3>9. Waiting(q, c) = x \o (y \o z)
      BY <2>1, <3>5, <3>8 DEF x, y, z
    <3>10. Waiting(q, c + M) = y \o z
      BY <3>2, <3>3 DEF y, z
    <3> QED
      BY <2>3, <3>9, <3>10 DEF x
  <2> QED
    BY <2>2, <2>3
<1>11. CandidatesOf(Append(s.batches, b)) = CandidatesOf(s.batches) \o Piece(job.id, c, M)
  BY <1>1, <1>7, CandidatesAppend
<1>12. /\ CandidatesOf(s.batches) \in Seq(Candidate) /\ Waiting(q2, c2) \in Seq(Candidate)
       /\ Piece(job.id, c, M) \in Seq(Candidate) /\ Piece(job.id, c, M) # <<>>
  <2>1. CandidatesOf(s.batches) \in Seq(Candidate) /\ Waiting(q2, c2) \in Seq(Candidate)
    BY <1>1, <1>8, CandidatesType, WaitingType
  <2>2. job.id \in Job
    BY <1>4, <1>5
  <2> QED
    BY <1>1, <1>6, <2>1, <2>2, PieceType
<1> HIDE DEF q2, c2
<1>13. CandidatesOf(Append(s.batches, b)) \o Waiting(q2, c2) = Waiting(queue, cursor)
  <2> DEFINE x == CandidatesOf(s.batches)  y == Piece(job.id, c, M)  z == Waiting(q2, c2)
  <2>1. x \in Seq(Candidate) /\ y \in Seq(Candidate) /\ z \in Seq(Candidate)
    BY <1>12
  <2> HIDE DEF x, y, z
  <2>2. (x \o y) \o z = x \o (y \o z)
    BY <2>1, ConcatAssociative
  <2> QED
    BY <1>1, <1>10, <1>11, <2>2 DEF x, y, z
<1>14. CandidatesOf(Append(s.batches, b)) # <<>>
  BY <1>11, <1>12, ConcatEqualIffEmpty
<1>15. Append(s.batches, b) \in Seq(Batch) /\ s.total + M \in Nat /\ s.total + M > 0
       /\ s.watermark - M \in Int
  BY <1>1, <1>6, <1>7
<1> DEFINE r == PopSome(s, N)
<1>16. /\ r \in [batches : Seq(Batch), total : Nat, watermark : Int, cursor : Nat,
                 queue : Seq(Entry)]
       /\ r.batches = Append(s.batches, b) /\ r.total = s.total + M
       /\ r.watermark = s.watermark - M /\ r.cursor = c2 /\ r.queue = q2
  BY <1>2, <1>8, <1>15
<1> HIDE DEF r
<1>17. r \in PopState
  <2>1. CursorOK(r.queue, r.cursor)
    BY <1>8, <1>16
  <2>2. r.watermark = SumFunction(Sizes(r.queue)) - r.cursor
    BY <1>9, <1>16
  <2>3. CandidatesOf(r.batches) \o Waiting(r.queue, r.cursor) = Waiting(queue, cursor)
    BY <1>13, <1>16
  <2>4. CandidatesOf(r.batches) # <<>> /\ r.total # 0
    BY <1>14, <1>15, <1>16
  <2> QED
    BY <1>16, <2>1, <2>2, <2>3, <2>4 DEF PopState
<1> QED
  BY <1>15, <1>16, <1>17 DEF r

(* The queue and its numbers are as they should be.                        *)
QueueInv ==
    /\ queue \in Seq(Entry) /\ cursor \in Nat /\ watermark \in Int
    /\ CursorOK(queue, cursor)
    /\ watermark = SumFunction(Sizes(queue)) - cursor

LEMMA PopStartGood == QueueInv => PopStart \in PopState
<1> SUFFICES ASSUME QueueInv PROVE PopStart \in PopState
  OBVIOUS
<1>1. Waiting(queue, cursor) \in Seq(Candidate)
  BY WaitingType DEF QueueInv
<1>2. CandidatesOf(<<>>) \o Waiting(queue, cursor) = Waiting(queue, cursor)
  <2>1. CandidatesOf(<<>>) \o Waiting(queue, cursor) = <<>> \o Waiting(queue, cursor)
    BY CandidatesNone
  <2>2. <<>> \o Waiting(queue, cursor) = Waiting(queue, cursor)
    BY <1>1, ConcatEmptySeq
  <2> QED
    BY <2>1, <2>2
<1>3. <<>> \in Seq(Batch)
  OBVIOUS
<1> QED
  BY <1>2, <1>3 DEF PopStart, PopState, QueueInv

(* Pop ends its loop in a good state, and has taken something.             *)
LEMMA PoppedGood ==
    ASSUME QueueInv, queue # <<>>, NEW N \in Nat, N > 0
    PROVE  Popped(N) \in PopState /\ Popped(N).total > 0
<1> DEFINE L == Len(queue)
           Over(s) == s.queue = <<>> \/ s.total >= N
           step == [s \in PopState |-> IF Over(s) THEN s ELSE PopSome(s, N)]
           Eq(t) == t = [k \in 0 .. L |->
                           IF k = 0 THEN PopStart
                           ELSE IF Over(t[k - 1]) THEN t[k - 1] ELSE PopSome(t[k - 1], N)]
<1>1. L \in Nat /\ L > 0
  BY DEF QueueInv
<1>2. PopStart \in PopState
  BY PopStartGood
<1>3. \A s \in PopState : s.total \in Nat
  BY DEF PopState
<1>4. ASSUME NEW s \in PopState, ~Over(s)
      PROVE  PopSome(s, N) \in PopState /\ PopSome(s, N).total > 0
  BY <1>3, <1>4, PopTurn
<1> HIDE DEF L
<1>5. step \in [PopState -> PopState]
  BY <1>4
<1>6. \E t : Eq(t)
  <2>1. PICK t : Turns(t, PopState, PopStart, step, L)
    <3>1. \A s \in PopState : step[s] \in PopState
      BY <1>5
    <3> HIDE DEF step
    <3> QED
      BY <1>1, <1>2, <3>1, TurnsExist
  <2>2. ASSUME NEW k \in 0 .. L, k # 0
        PROVE  step[t[k - 1]]
                 = IF Over(t[k - 1]) THEN t[k - 1] ELSE PopSome(t[k - 1], N)
    <3>1. k - 1 \in 0 .. L
      BY <1>1, <2>2
    <3>2. t[k - 1] \in PopState
      BY <2>1, <3>1 DEF Turns
    <3> QED
      BY <3>2
  <2> HIDE DEF step, Over
  <2>3. t = [k \in 0 .. L |-> t[k]]
    BY <2>1 DEF Turns
  <2>4. Eq(t)
    BY <2>1, <2>2, <2>3, Zenon DEF Turns
  <2> QED
    BY <2>4
<1> DEFINE turn == CHOOSE t : Eq(t)
<1>7. Eq(turn)
  BY <1>6
<1>8. Popped(N) = turn[L]
  BY DEF Popped, PopStart, L
<1> HIDE DEF turn
<1> DEFINE T == {n \in Nat : n + 1 <= L => turn[n + 1] \in PopState /\ turn[n + 1].total > 0}
<1>9. /\ turn[0] = PopStart
      /\ \A k \in 0 .. L : k # 0 =>
            turn[k] = IF Over(turn[k - 1]) THEN turn[k - 1] ELSE PopSome(turn[k - 1], N)
  <2> DEFINE V(k) == IF k = 0 THEN PopStart
                     ELSE IF Over(turn[k - 1]) THEN turn[k - 1] ELSE PopSome(turn[k - 1], N)
  <2>1. turn = [k \in 0 .. L |-> V(k)]
    BY <1>7
  <2> HIDE DEF V
  <2>2. \A k \in 0 .. L : turn[k] = V(k)
    BY <2>1
  <2>3. 0 \in 0 .. L
    BY <1>1
  <2> HIDE DEF Over
  <2> QED
    BY <2>2, <2>3, Zenon DEF V
<1>10. 0 \in T
  <2>1. ~Over(PopStart)
    BY DEF PopStart
  <2>2. PICK k \in 0 .. L : k = 0 + 1 /\ k # 0 /\ k - 1 = 0
    BY <1>1
  <2>3. turn[k] = PopSome(PopStart, N)
    <3> HIDE DEF Over
    <3> QED
      BY <1>9, <2>1, <2>2, Zenon
  <2>4. turn[k] \in PopState /\ turn[k].total > 0
    BY <1>2, <1>4, <2>1, <2>3
  <2> QED
    BY <2>2, <2>4
<1>11. ASSUME NEW n \in T PROVE n + 1 \in T
  <2> SUFFICES ASSUME n + 1 + 1 <= L
               PROVE  turn[n + 1 + 1] \in PopState /\ turn[n + 1 + 1].total > 0
    OBVIOUS
  <2>1. n \in Nat /\ turn[n + 1] \in PopState /\ turn[n + 1].total > 0
    BY <1>1
  <2>2. PICK k \in 0 .. L : k = n + 1 + 1 /\ k # 0 /\ k - 1 = n + 1
    BY <1>1, <2>1
  <2>3. turn[k] = IF Over(turn[n + 1]) THEN turn[n + 1] ELSE PopSome(turn[n + 1], N)
    <3> HIDE DEF Over
    <3> QED
      BY <1>9, <2>2, Zenon
  <2>4. turn[k] \in PopState /\ turn[k].total > 0
    <3> HIDE DEF Over
    <3> QED
      BY <1>4, <2>1, <2>3, Zenon
  <2> QED
    BY <2>2, <2>4
<1> HIDE DEF T
<1>12. L - 1 \in T
  BY <1>1, <1>10, <1>11, Induction
<1>13. turn[L] \in PopState /\ turn[L].total > 0
  BY <1>1, <1>12 DEF T
<1> QED
  BY <1>8, <1>13

-----------------------------------------------------------------------------
(***************************************************************************)
(* The queue and the workers                                               *)
(***************************************************************************)
(* A worker holds candidates exactly while it mines.                       *)
HoldsWhileMining ==
    \A w \in Worker :
        /\ pc[w] = "mine" => CandidatesOf(batches[w]) # <<>>
        /\ pc[w] # "mine" => batches[w] = <<>>

PoolInv == TypeOK /\ WatermarkExact /\ HoldsWhileMining

LEMMA PoolQueueInv == PoolInv => QueueInv
BY DEF PoolInv, TypeOK, WatermarkExact, QueueInv, CursorOK, Sizes

LEMMA WatermarkQueue ==
    ASSUME CursorOK(queue, cursor), watermark = SumFunction(Sizes(queue)) - cursor
    PROVE  WatermarkExact
BY DEF WatermarkExact, CursorOK, Sizes

LEMMA PoolInit == Init => PoolInv
<1> SUFFICES ASSUME Init PROVE PoolInv
  OBVIOUS
<1>1. TypeOK
  <2>1. <<>> \in Seq(Entry) /\ <<>> \in Seq(Batch)
    OBVIOUS
  <2> QED
    <3>1. batches \in [Worker -> Seq(Batch)]
      <4> DEFINE B == Seq(Batch)
      <4>1. <<>> \in B
        BY <2>1
      <4> HIDE DEF B
      <4>2. batches \in [Worker -> B]
        BY <4>1 DEF Init
      <4> QED
        BY <4>2 DEF B
    <3>2. batchSize \in [Worker -> 0 .. WordMod - 1]
      BY BatchAssumption DEF Init
    <3>3. queue \in Seq(Entry) /\ cursor \in Nat /\ watermark \in Int
      BY <2>1 DEF Init
    <3>4. pushed \in 0 .. MaxJobs /\ toWake \in SUBSET Worker /\ aborted \in BOOLEAN
      <4>1. pushed = 0 /\ toWake = {} /\ aborted = FALSE
        BY DEF Init
      <4>2. 0 \in 0 .. MaxJobs
        BY BoundAssumption
      <4>3. aborted \in BOOLEAN
        BY <4>1, Zenon
      <4> QED
        BY <4>1, <4>2, <4>3
    <3>5. /\ events \in SUBSET Worker /\ continue \in SUBSET Worker
          /\ pc \in [Worker -> {"wait", "pop", "mine"}]
      BY DEF Init
    <3> QED
      BY <3>1, <3>2, <3>3, <3>4, <3>5 DEF TypeOK
<1>2. WatermarkExact
  <2>1. Sizes(<<>>) = <<>>
    BY DEF Sizes
  <2>2. SumFunction(Sizes(queue)) = 0
    BY <2>1, SumSeqEmpty DEF Init
  <2> QED
    BY <2>2, WatermarkQueue DEF Init, CursorOK
<1>3. HoldsWhileMining
  BY DEF Init, HoldsWhileMining
<1> QED
  BY <1>1, <1>2, <1>3 DEF PoolInv

(* batchSize stays in its width.                                           *)
LEMMA AdjustedType ==
    ASSUME NEW old \in 0 .. WordMod - 1, NEW processed \in Nat, NEW ms \in Durations
    PROVE  AdjustedBatchSize(old, processed, ms) \in 0 .. WordMod - 1
<1>1. old * Boost \in Int
  BY BatchAssumption
<1>2. (processed * TargetMs) \div ms \in Int
  <2>1. processed * TargetMs \in Int /\ ms \in Nat /\ ms > 0
    BY BatchAssumption
  <2> QED
    BY <2>1
<1>3. \A x \in Int : x % WordMod \in 0 .. WordMod - 1
  BY BatchAssumption
<1> QED
  BY <1>1, <1>2, <1>3 DEF AdjustedBatchSize

(* What pushing a job does to the queue.                                   *)
LEMMA PushQueue ==
    ASSUME PoolInv, NEW n \in 1 .. MaxResults, Push(n)
    PROVE  \E j \in Entry :
              /\ j.id \in Job /\ j.size = n
              /\ queue' = Append(queue, j) /\ cursor' = cursor /\ watermark' = watermark + n
<1> DEFINE j == [id |-> pushed + 1, size |-> n]
<1>1. pushed + 1 \in Job
  BY BoundAssumption DEF Push, PoolInv, TypeOK, Job
<1>2. j \in Entry
  BY <1>1 DEF Entry
<1>3. n # 0
  BY BoundAssumption
<1>4. queue' = Append(queue, j) /\ cursor' = cursor /\ watermark' = watermark + n
  BY <1>3 DEF Push
<1>5. j.id \in Job /\ j.size = n
  BY <1>1
<1> QED
  BY <1>2, <1>4, <1>5

(* What popping does to the queue and to the worker's batches.             *)
LEMMA PopQueue ==
    ASSUME PoolInv, NEW w \in Worker, Pop(w)
    PROVE  \E p \in PopState :
              /\ queue' = p.queue /\ cursor' = p.cursor /\ watermark' = p.watermark
              /\ batches' = [batches EXCEPT ![w] = p.batches]
              /\ CandidatesOf(p.batches) # <<>>
<1> DEFINE p == Popped(batchSize[w])
<1>1. QueueInv /\ queue # <<>> /\ batchSize[w] \in Nat /\ batchSize[w] > 0
  BY PoolQueueInv, BatchAssumption DEF Pop, PoolInv, TypeOK
<1>2. p \in PopState /\ p.total > 0
  BY <1>1, PoppedGood
<1>3. /\ queue' = p.queue /\ cursor' = p.cursor /\ watermark' = p.watermark
      /\ batches' = [batches EXCEPT ![w] = p.batches]
  BY DEF Pop
<1> HIDE DEF p
<1>4. CandidatesOf(p.batches) # <<>>
  BY <1>2 DEF PopState
<1> QED
  BY <1>2, <1>3, <1>4

LEMMA PoolStep == PoolInv /\ [Next]_vars => PoolInv'
<1> SUFFICES ASSUME PoolInv, [Next]_vars PROVE PoolInv'
  OBVIOUS
<1>0. /\ TypeOK /\ HoldsWhileMining /\ QueueInv
      /\ queue \in Seq(Entry) /\ CursorOK(queue, cursor)
      /\ watermark = SumFunction(Sizes(queue)) - cursor
  BY PoolQueueInv DEF PoolInv, QueueInv
<1>a. ASSUME CursorOK(queue, cursor)', watermark' = SumFunction(Sizes(queue')) - cursor'
      PROVE  WatermarkExact'
  BY <1>a DEF WatermarkExact, CursorOK, Sizes
<1>b. ASSUME UNCHANGED queueVars
      PROVE  /\ WatermarkExact' /\ queue' = queue /\ cursor' = cursor
             /\ watermark' = watermark
  BY <1>b DEF PoolInv, WatermarkExact, queueVars
<1>1. ASSUME NEW n \in 0 .. MaxResults, Push(n)
      PROVE  PoolInv'
  <2>1. CASE n = 0
    <3>1. UNCHANGED queueVars
      BY <1>1, <2>1 DEF Push
    <3>2. TypeOK'
      BY <1>0, <1>1, <1>b, <3>1, BoundAssumption DEF Push, TypeOK, workerVars
    <3>3. HoldsWhileMining'
      BY <1>0, <1>1 DEF Push, HoldsWhileMining, workerVars, CandidatesOf
    <3> QED
      BY <1>b, <3>1, <3>2, <3>3 DEF PoolInv
  <2>2. CASE n # 0
    <3>0. n \in 1 .. MaxResults
      BY <2>2
    <3>1. PICK j \in Entry :
             /\ j.id \in Job /\ j.size = n
             /\ queue' = Append(queue, j) /\ cursor' = cursor /\ watermark' = watermark + n
      BY <1>1, <3>0, PushQueue
    <3>2. queue' \in Seq(Entry) /\ watermark' \in Int
      BY <1>0, <1>1, <3>1 DEF TypeOK
    <3>3. TypeOK'
      BY <1>0, <1>1, <3>1, <3>2, BoundAssumption DEF Push, TypeOK, workerVars
    <3>4. SumFunction(Sizes(queue')) = SumFunction(Sizes(queue)) + n
          /\ SumFunction(Sizes(queue)) \in Int
      BY <1>0, <3>1, SizesAppend, SizesType
    <3>5. CursorOK(queue', cursor')
      <4>1. queue' # <<>> /\ (queue # <<>> => Head(queue') = Head(queue))
            /\ (queue = <<>> => Head(queue') = j)
        BY <1>0, <3>1
      <4> QED
        BY <1>0, <3>0, <3>1, <4>1 DEF CursorOK
    <3>6. watermark' = SumFunction(Sizes(queue')) - cursor'
      BY <1>0, <3>0, <3>1, <3>4 DEF TypeOK
    <3>7. WatermarkExact'
      BY <1>a, <3>5, <3>6
    <3>8. HoldsWhileMining'
      BY <1>0, <1>1 DEF Push, HoldsWhileMining, workerVars, CandidatesOf
    <3> QED
      BY <3>3, <3>7, <3>8 DEF PoolInv
  <2> QED
    BY <2>1, <2>2
<1>2. ASSUME NEW w \in Worker, WakeUp(w)
      PROVE  PoolInv'
  <2>1. TypeOK'
    BY <1>0, <1>2 DEF WakeUp, TypeOK, queueVars
  <2>2. HoldsWhileMining'
    BY <1>0, <1>2 DEF WakeUp, HoldsWhileMining, CandidatesOf
  <2>3. UNCHANGED queueVars
    BY <1>2 DEF WakeUp
  <2> QED
    BY <1>b, <2>1, <2>2, <2>3 DEF PoolInv
<1>3. ASSUME NEW w \in Worker, TakeEvents(w)
      PROVE  PoolInv'
  <2>1. TypeOK'
    BY <1>0, <1>3 DEF TakeEvents, TypeOK, queueVars
  <2>2. HoldsWhileMining'
    BY <1>0, <1>3 DEF TakeEvents, HoldsWhileMining, TypeOK, CandidatesOf
  <2>3. UNCHANGED queueVars
    BY <1>3 DEF TakeEvents
  <2> QED
    BY <1>b, <2>1, <2>2, <2>3 DEF PoolInv
<1>4. ASSUME NEW w \in Worker, PopNothing(w)
      PROVE  PoolInv'
  <2>1. TypeOK'
    BY <1>0, <1>4 DEF PopNothing, TypeOK, queueVars
  <2>2. HoldsWhileMining'
    BY <1>0, <1>4 DEF PopNothing, HoldsWhileMining, TypeOK, CandidatesOf
  <2>3. UNCHANGED queueVars
    BY <1>4 DEF PopNothing
  <2> QED
    BY <1>b, <2>1, <2>2, <2>3 DEF PoolInv
<1>5. ASSUME NEW w \in Worker, Pop(w)
      PROVE  PoolInv'
  <2>1. PICK p \in PopState :
           /\ queue' = p.queue /\ cursor' = p.cursor /\ watermark' = p.watermark
           /\ batches' = [batches EXCEPT ![w] = p.batches]
           /\ CandidatesOf(p.batches) # <<>>
    BY <1>5, PopQueue
  <2>2. /\ p.queue \in Seq(Entry) /\ p.cursor \in Nat /\ p.watermark \in Int
        /\ p.batches \in Seq(Batch) /\ CursorOK(p.queue, p.cursor)
        /\ p.watermark = SumFunction(Sizes(p.queue)) - p.cursor
    BY DEF PopState
  <2>3. TypeOK'
    <3>1. batches' \in [Worker -> Seq(Batch)]
      <4> DEFINE B == Seq(Batch)
      <4>1. batches \in [Worker -> B] /\ p.batches \in B
        BY <1>0, <2>2 DEF TypeOK
      <4> HIDE DEF B
      <4>2. batches' \in [Worker -> B]
        BY <2>1, <4>1
      <4> QED
        BY <4>2 DEF B
    <3>2. queue' \in Seq(Entry) /\ cursor' \in Nat /\ watermark' \in Int
      BY <2>1, <2>2
    <3>3. pc' \in [Worker -> {"wait", "pop", "mine"}]
      BY <1>0, <1>5 DEF Pop, TypeOK
    <3> QED
      BY <1>0, <1>5, <3>1, <3>2, <3>3 DEF Pop, TypeOK
  <2>4. WatermarkExact'
    BY <1>a, <2>1, <2>2
  <2>5. HoldsWhileMining'
    <3> SUFFICES ASSUME NEW v \in Worker
                 PROVE  /\ pc'[v] = "mine" => CandidatesOf(batches'[v]) # <<>>
                        /\ pc'[v] # "mine" => batches'[v] = <<>>
      BY DEF HoldsWhileMining, CandidatesOf
    <3>1. /\ pc' = [pc EXCEPT ![w] = "mine"] /\ pc \in [Worker -> {"wait", "pop", "mine"}]
          /\ batches \in [Worker -> Seq(Batch)]
      BY <1>0, <1>5 DEF Pop, TypeOK
    <3>2. DOMAIN batches = Worker
      BY <3>1
    <3>3. CASE v = w
      BY <2>1, <3>1, <3>2, <3>3, Zenon
    <3>4. CASE v # w
      <4>1. pc'[v] = pc[v]
        BY <3>1, <3>4
      <4>2. batches'[v] = batches[v]
        BY <2>1, <3>2, <3>4, Zenon
      <4> QED
        BY <1>0, <4>1, <4>2, Zenon DEF HoldsWhileMining
    <3> QED
      BY <3>3, <3>4
  <2> QED
    BY <2>3, <2>4, <2>5 DEF PoolInv
<1>6. ASSUME NEW w \in Worker, PopAborts(w)
      PROVE  PoolInv'
  <2>1. TypeOK'
    BY <1>0, <1>6 DEF PopAborts, TypeOK, queueVars, workerVars
  <2>2. HoldsWhileMining'
    BY <1>0, <1>6 DEF PopAborts, HoldsWhileMining, workerVars, CandidatesOf
  <2>3. UNCHANGED queueVars
    BY <1>6 DEF PopAborts
  <2> QED
    BY <1>b, <2>1, <2>2, <2>3 DEF PoolInv
<1>7. ASSUME NEW w \in Worker, Mine(w)
      PROVE  PoolInv'
  <2>1. PICK processed \in 0 .. MostProcessed(batches[w]), ms \in Durations :
           batchSize' = [batchSize EXCEPT ![w] = AdjustedBatchSize(batchSize[w], processed, ms)]
    BY <1>7 DEF Mine
  <2>2. processed \in Nat /\ batchSize[w] \in 0 .. WordMod - 1
    BY <1>0 DEF TypeOK
  <2>3. AdjustedBatchSize(batchSize[w], processed, ms) \in 0 .. WordMod - 1
    BY <2>2, AdjustedType
  <2>4. batchSize' \in [Worker -> 0 .. WordMod - 1]
    BY <1>0, <2>1, <2>3 DEF TypeOK
  <2>5. batches' \in [Worker -> Seq(Batch)]
    <3> DEFINE B == Seq(Batch)
    <3>1. batches \in [Worker -> B] /\ <<>> \in B
      BY <1>0 DEF TypeOK
    <3> HIDE DEF B
    <3>2. batches' \in [Worker -> B]
      BY <1>7, <3>1 DEF Mine
    <3> QED
      BY <3>2 DEF B
  <2>6. TypeOK'
    BY <1>0, <1>7, <2>4, <2>5 DEF Mine, TypeOK, queueVars
  <2>7. HoldsWhileMining'
    <3> SUFFICES ASSUME NEW v \in Worker
                 PROVE  /\ pc'[v] = "mine" => CandidatesOf(batches'[v]) # <<>>
                        /\ pc'[v] # "mine" => batches'[v] = <<>>
      BY DEF HoldsWhileMining, CandidatesOf
    <3>1. /\ pc' = [pc EXCEPT ![w] = "wait"] /\ pc \in [Worker -> {"wait", "pop", "mine"}]
          /\ batches' = [batches EXCEPT ![w] = <<>>] /\ batches \in [Worker -> Seq(Batch)]
      BY <1>0, <1>7 DEF Mine, TypeOK
    <3>2. DOMAIN batches = Worker
      BY <3>1
    <3>3. CASE v = w
      <4>1. pc'[v] = "wait" /\ batches'[v] = <<>>
        BY <3>1, <3>2, <3>3, Zenon
      <4> QED
        BY <4>1
    <3>4. CASE v # w
      <4>1. pc'[v] = pc[v]
        BY <3>1, <3>4
      <4>2. batches'[v] = batches[v]
        BY <3>1, <3>2, <3>4, Zenon
      <4> QED
        BY <1>0, <4>1, <4>2, Zenon DEF HoldsWhileMining
    <3> QED
      BY <3>3, <3>4
  <2>8. UNCHANGED queueVars
    BY <1>7 DEF Mine
  <2> QED
    BY <1>b, <2>6, <2>7, <2>8 DEF PoolInv
<1>8. CASE UNCHANGED vars
  <2>1. TypeOK' /\ UNCHANGED queueVars
    BY <1>0, <1>8 DEF vars, TypeOK, queueVars, workerVars
  <2>2. HoldsWhileMining'
    BY <1>0, <1>8 DEF vars, HoldsWhileMining, workerVars, CandidatesOf
  <2> QED
    BY <1>b, <2>1, <2>2 DEF PoolInv
<1> QED
  BY <1>1, <1>2, <1>3, <1>4, <1>5, <1>6, <1>7, <1>8 DEF Next, Run

(* Every variable has its type: in particular batchSize keeps to its width,*)
(* and the offsets and lengths of batches stay within their jobs           *)
(* (JobQueue, Worker::adjust_batch_size), for any sizes and times.         *)
THEOREM TypeOKHolds == Spec => []TypeOK
<1>1. PoolInv => TypeOK
  BY DEF PoolInv
<1> QED
  BY PoolInit, PoolStep, <1>1, PTL DEF Spec

(* The watermark is the number of results not popped yet, and the cursor   *)
(* points into the oldest job (JobQueue::push, JobQueue::pop), for any     *)
(* number of jobs, of results and of batch sizes.                          *)
THEOREM WatermarkExactHolds == Spec => []WatermarkExact
<1>1. PoolInv => WatermarkExact
  BY DEF PoolInv
<1> QED
  BY PoolInit, PoolStep, <1>1, PTL DEF Spec

-----------------------------------------------------------------------------
(***************************************************************************)
(* The abstract queue                                                      *)
(***************************************************************************)
LEMMA FifoInit == Init => Fifo!Init
<1> SUFFICES ASSUME Init PROVE Fifo!Init
  OBVIOUS
<1>1. PendingCandidates = <<>>
  BY PendingIsWaiting, WaitingNone DEF Init
<1>2. \A w \in Worker : CandidatesOf(batches[w]) = <<>>
  BY CandidatesNone DEF Init
<1>3. [w \in Worker |-> CandidatesOf(batches[w])] = [w \in Worker |-> <<>>]
  BY <1>2
<1> QED
  BY <1>1, <1>3 DEF Fifo!Init

(* A push that adds a job puts the job's candidates.                       *)
LEMMA PushPuts ==
    ASSUME PoolInv, NEW n \in 1 .. MaxResults, Push(n)
    PROVE  \E j \in Job : Fifo!Put(j, n)
<1>0. QueueInv
  BY PoolQueueInv
<1>1. PICK j \in Entry :
         /\ j.id \in Job /\ j.size = n
         /\ queue' = Append(queue, j) /\ cursor' = cursor /\ watermark' = watermark + n
  BY PushQueue
<1>2. PendingCandidates' = Waiting(queue', cursor')
  BY DEF PendingCandidates, Waiting, Pieces, Piece
<1>3. Waiting(queue', cursor') = Waiting(queue, cursor) \o Piece(j.id, 0, n)
  BY <1>0, <1>1, WaitingAppend DEF QueueInv
<1>4. Piece(j.id, 0, n) = [i \in 1 .. n |-> <<j.id, i - 1>>]
  <2>1. \A i \in 1 .. n : 0 + i - 1 = i - 1
    BY BoundAssumption
  <2>2. [k \in 1 .. n |-> <<j.id, 0 + k - 1>>] = [i \in 1 .. n |-> <<j.id, i - 1>>]
    BY <2>1, Zenon
  <2> QED
    BY <2>2 DEF Piece
<1>5. PendingCandidates' = PendingCandidates \o [i \in 1 .. n |-> <<j.id, i - 1>>]
  BY <1>2, <1>3, <1>4, PendingIsWaiting, Zenon
<1>6. [w \in Worker |-> CandidatesOf(batches[w])]'
         = [w \in Worker |-> CandidatesOf(batches[w])]
  BY DEF Push, workerVars, CandidatesOf
<1>7. Fifo!Put(j.id, n)
  BY <1>5, <1>6 DEF Fifo!Put
<1> QED
  BY <1>1, <1>7

(* A pop takes the oldest candidates, one or more.                         *)
LEMMA PopTakes ==
    ASSUME PoolInv, NEW w \in Worker, Pop(w)
    PROVE  \E k \in 1 .. Len(PendingCandidates) : Fifo!Take(w, k)
<1>0. QueueInv
  BY PoolQueueInv
<1>1. PICK p \in PopState :
         /\ queue' = p.queue /\ cursor' = p.cursor /\ watermark' = p.watermark
         /\ batches' = [batches EXCEPT ![w] = p.batches]
         /\ CandidatesOf(p.batches) # <<>>
  BY PopQueue
<1> DEFINE taken == CandidatesOf(p.batches)
           left == Waiting(p.queue, p.cursor)
           all == PendingCandidates
<1>2. taken \in Seq(Candidate) /\ left \in Seq(Candidate) /\ taken # <<>>
  <2>1. p.batches \in Seq(Batch) /\ p.queue \in Seq(Entry) /\ p.cursor \in Nat
        /\ CursorOK(p.queue, p.cursor)
    BY DEF PopState
  <2> QED
    BY <1>1, <2>1, CandidatesType, WaitingType
<1>3. all = taken \o left
  BY PendingIsWaiting DEF PopState
<1>4. all' = left
  BY <1>1 DEF PendingCandidates, Waiting, Pieces, Piece
<1>5. batches[w] = <<>> /\ DOMAIN batches = Worker
  <2>1. pc[w] = "pop"
    BY DEF Pop
  <2> QED
    BY <2>1 DEF PoolInv, HoldsWhileMining, TypeOK
<1> HIDE DEF taken, left, all
<1>6. /\ SubSeq(all, 1, Len(taken)) = taken
      /\ SubSeq(all, Len(taken) + 1, Len(all)) = left
      /\ Len(taken) \in 1 .. Len(all)
  <2>1. /\ SubSeq(all, 1, Len(taken)) = taken
        /\ SubSeq(all, Len(taken) + 1, Len(all)) = left
        /\ Len(all) = Len(taken) + Len(left) /\ Len(taken) \in Nat /\ Len(left) \in Nat
    BY <1>2, <1>3, ConcatParts
  <2>2. Len(taken) # 0
    BY <1>2
  <2>3. Len(taken) \in 1 .. Len(all)
    BY <2>1, <2>2
  <2> QED
    BY <2>1, <2>3
<1> DEFINE mining == [v \in Worker |-> CandidatesOf(batches[v])]
<1>7. mining[w] = <<>>
  BY <1>5, CandidatesNone
<1>8. [v \in Worker |-> CandidatesOf(batches[v])]' = [mining EXCEPT ![w] = taken]
  <2>1. \A v \in Worker : batches'[v] = IF v = w THEN p.batches ELSE batches[v]
    BY <1>1, <1>5, Zenon
  <2>2. [v \in Worker |-> CandidatesOf(batches[v])]'
           = [v \in Worker |-> CandidatesOf(batches'[v])]
    BY DEF CandidatesOf
  <2>3. \A v \in Worker : CandidatesOf(batches'[v]) = IF v = w THEN taken ELSE mining[v]
    BY <2>1, Zenon DEF taken
  <2> HIDE DEF mining
  <2>4. mining = [v \in Worker |-> mining[v]]
    BY DEF mining
  <2>5. [mining EXCEPT ![w] = taken] = [v \in Worker |-> IF v = w THEN taken ELSE mining[v]]
    BY <2>4
  <2>6. [v \in Worker |-> CandidatesOf(batches'[v])]
           = [v \in Worker |-> IF v = w THEN taken ELSE mining[v]]
    BY <2>3, Zenon
  <2> QED
    BY <2>2, <2>5, <2>6, Zenon
<1>9. Fifo!Take(w, Len(taken))
  BY <1>4, <1>6, <1>7, <1>8 DEF Fifo!Take, all
<1> QED
  BY <1>6, <1>9 DEF all

(* A worker that has mined its batches is done with its candidates.        *)
LEMMA MineDone ==
    ASSUME PoolInv, NEW w \in Worker, Mine(w)
    PROVE  Fifo!Done(w)
<1> DEFINE mining == [v \in Worker |-> CandidatesOf(batches[v])]
<1>1. mining[w] # <<>> /\ DOMAIN batches = Worker
  BY DEF Mine, PoolInv, HoldsWhileMining, TypeOK
<1>2. [v \in Worker |-> CandidatesOf(batches[v])]' = [mining EXCEPT ![w] = <<>>]
  <2>0. batches' = [batches EXCEPT ![w] = <<>>]
    BY DEF Mine
  <2>1. \A v \in Worker : batches'[v] = IF v = w THEN <<>> ELSE batches[v]
    BY <1>1, <2>0, Zenon
  <2>2. [v \in Worker |-> CandidatesOf(batches[v])]'
           = [v \in Worker |-> CandidatesOf(batches'[v])]
    BY DEF CandidatesOf
  <2>3. \A v \in Worker : CandidatesOf(batches'[v]) = IF v = w THEN <<>> ELSE mining[v]
    BY <2>1, CandidatesNone, Zenon
  <2> HIDE DEF mining
  <2>4. mining = [v \in Worker |-> mining[v]]
    BY DEF mining
  <2>5. [mining EXCEPT ![w] = <<>>] = [v \in Worker |-> IF v = w THEN <<>> ELSE mining[v]]
    BY <2>4
  <2>6. [v \in Worker |-> CandidatesOf(batches'[v])]
           = [v \in Worker |-> IF v = w THEN <<>> ELSE mining[v]]
    BY <2>3, Zenon
  <2> QED
    BY <2>2, <2>5, <2>6, Zenon
<1>3. PendingCandidates' = PendingCandidates
  BY DEF Mine, queueVars, PendingCandidates
<1> QED
  BY <1>1, <1>2, <1>3 DEF Fifo!Done

(* All other steps leave the abstract queue as it is.                      *)
LEMMA FifoStep == PoolInv /\ [Next]_vars => [Fifo!Next]_(Fifo!vars)
<1> SUFFICES ASSUME PoolInv, [Next]_vars PROVE [Fifo!Next]_(Fifo!vars)
  OBVIOUS
<1>a. ASSUME UNCHANGED queueVars, UNCHANGED batches
      PROVE  UNCHANGED Fifo!vars
  <2>1. PendingCandidates' = PendingCandidates
    BY <1>a DEF queueVars, PendingCandidates
  <2>2. [w \in Worker |-> CandidatesOf(batches[w])]'
           = [w \in Worker |-> CandidatesOf(batches[w])]
    BY <1>a DEF CandidatesOf
  <2> QED
    BY <2>1, <2>2 DEF Fifo!vars
<1>1. ASSUME NEW n \in 0 .. MaxResults, Push(n)
      PROVE  [Fifo!Next]_(Fifo!vars)
  <2>1. CASE n = 0
    <3>1. UNCHANGED queueVars /\ UNCHANGED batches
      BY <1>1, <2>1 DEF Push, workerVars
    <3> QED
      BY <1>a, <3>1
  <2>2. CASE n # 0
    <3>1. n \in 1 .. MaxResults
      BY <2>2
    <3>2. \E j \in Job : Fifo!Put(j, n)
      BY <1>1, <3>1, PushPuts
    <3> QED
      BY <3>1, <3>2 DEF Fifo!Next
  <2> QED
    BY <2>1, <2>2
<1>2. ASSUME NEW w \in Worker, Pop(w)
      PROVE  [Fifo!Next]_(Fifo!vars)
  BY <1>2, PopTakes DEF Fifo!Next
<1>3. ASSUME NEW w \in Worker, Mine(w)
      PROVE  [Fifo!Next]_(Fifo!vars)
  BY <1>3, MineDone DEF Fifo!Next
<1>4. ASSUME NEW w \in Worker,
             WakeUp(w) \/ TakeEvents(w) \/ PopNothing(w) \/ PopAborts(w)
      PROVE  [Fifo!Next]_(Fifo!vars)
  <2>1. UNCHANGED queueVars /\ UNCHANGED batches
    BY <1>4 DEF WakeUp, TakeEvents, PopNothing, PopAborts, workerVars
  <2> QED
    BY <1>a, <2>1
<1>5. CASE UNCHANGED vars
  <2>1. UNCHANGED queueVars /\ UNCHANGED batches
    BY <1>5 DEF vars, workerVars
  <2> QED
    BY <1>a, <2>1
<1> QED
  BY <1>1, <1>2, <1>3, <1>4, <1>5 DEF Next, Run

(* The queue, its jobs of several results and the workers' batches         *)
(* implement a first-in-first-out queue of candidates: every candidate is  *)
(* handed to one worker, once, in order, and a worker that finds the queue *)
(* not empty gets at least one (JobQueue, Worker::work), for any number of *)
(* workers, of jobs and of results, and any batch sizes.                   *)
THEOREM FifoImplemented == Spec => ImplementsFifo
<1>1. Init => Fifo!Init
  BY FifoInit
<1>2. PoolInv /\ [Next]_vars => [Fifo!Next]_(Fifo!vars)
  BY FifoStep
<1> QED
  BY PoolInit, PoolStep, <1>1, <1>2, PTL DEF Spec, ImplementsFifo, Fifo!Spec
===============================================================================
