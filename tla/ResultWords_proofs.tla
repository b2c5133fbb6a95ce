------------------------- MODULE ResultWords_proofs -------------------------
(***************************************************************************)
(* What a worker reads in a ring of any size, with any Buffers: as long as *)
(* no overtaken ~Buffer has written i1, the words it takes for hashes are  *)
(* hashes of its own Buffer.  It rests on the layout of the Buffers        *)
(* (LayoutInv of CyclicQueue_proofs) and on the parity of the spans.       *)
(***************************************************************************)
EXTENDS ResultWords, CyclicQueue_proofs

(* The first span holds the counter and whole pairs, and the second, if    *)
(* there is one, whole pairs in other words of the ring.                   *)
Shaped(b) ==
    LET f == place[b].first
        s == place[b].second
    IN  /\ (f.to - f.from) % 2 = 1 /\ f.from < f.to
        /\ Words(f) \cap Words(s) = {}

WordsInv ==
    /\ LayoutInv
    /\ results \subseteq used
    /\ \A b \in used : Shaped(b)
    /\ word \in [Word -> {0, 1}]
    /\ HashStartNonzeroInOrder

(* alloc_part keeps the parity of a request.                               *)
LEMMA PartLenParity ==
    ASSUME NEW n \in Nat, NEW max \in Nat, PartLen(n, max) # 0
    PROVE  PartLen(n, max) % 2 = n % 2
  <1> DEFINE m == IF n > max THEN max ELSE n
             len == IF m % 2 # n % 2 THEN m - 1 ELSE m
  <1>1. m \in Nat
    OBVIOUS
  <1>2. PartLen(n, max) = len
    BY DEF PartLen
  <1> HIDE DEF m
  <1>3. len % 2 = n % 2
    BY <1>1
  <1> QED
    BY <1>2, <1>3

LEMMA GrantShaped ==
    ASSUME i0 \in Position, i1 \in Position, NEW n \in Requests, CanGrant(n)
    PROVE  LET f == Grant(n).first
               s == Grant(n).second
           IN  /\ (f.to - f.from) % 2 = 1 /\ f.from < f.to
               /\ Words(f) \cap Words(s) = {}
  <1> DEFINE A == AheadLen(n)
             B == BehindLen(n)
  <1>1. n \in Nat /\ n % 2 = 1
    BY RequestsAssumption
  <1>2. i0 \in Nat /\ i1 \in Nat /\ i0 <= Size /\ i1 <= Size /\ Size \in Nat
    BY SizeAssumption DEF Position
  <1>3. /\ A \in Nat /\ B \in Nat /\ A <= n
        /\ i0 < i1 => B = 0
        /\ ~(i0 < i1) => B <= i1
    <2>1. i0 < i1 => A = PartLen(n, i1 - i0) /\ i1 - i0 \in Nat
      BY <1>2 DEF AheadLen
    <2>2. ~(i0 < i1) => A = PartLen(n, Size - i0) /\ Size - i0 \in Nat
      BY <1>2 DEF AheadLen
    <2>3. A <= n
      BY <1>1, <2>1, <2>2, PartLenBounds
    <2> QED
      BY <2>3, GrantParts
  <1>4. A # 0 => A % 2 = 1
    <2>1. i0 < i1 => A = PartLen(n, i1 - i0) /\ i1 - i0 \in Nat
      BY <1>2 DEF AheadLen
    <2>2. ~(i0 < i1) => A = PartLen(n, Size - i0) /\ Size - i0 \in Nat
      BY <1>2 DEF AheadLen
    <2> HIDE DEF A
    <2> QED
      BY <1>1, <2>1, <2>2, PartLenParity
  <1>5. A = 0 /\ B # 0 => B % 2 = 1
    <2> SUFFICES ASSUME A = 0, B # 0 PROVE B % 2 = 1
      OBVIOUS
    <2>1. B = PartLen(n, i1)
      BY <1>1 DEF BehindLen
    <2> HIDE DEF B
    <2> QED
      BY <1>1, <1>2, <2>1, PartLenParity
  <1>6. A > 0 \/ B > 0
    BY DEF CanGrant
  <1> HIDE DEF A, B
  <1>7. CASE A > 0 /\ B > 0
    <2>1. /\ Grant(n).first = [from |-> i0, to |-> i0 + A]
          /\ Grant(n).second = [from |-> 0, to |-> 0 + B]
      BY <1>7 DEF Grant, A, B, SpanAt
    <2>2. i0 + A - i0 = A
      BY <1>2, <1>3
    <2>3. Words(Grant(n).first) = i0 .. i0 + A - 1 /\ Words(Grant(n).second) = 0 .. 0 + B - 1
      <3>1. /\ Grant(n).first.from = i0 /\ Grant(n).first.to = i0 + A
            /\ Grant(n).second.from = 0 /\ Grant(n).second.to = 0 + B
        BY <2>1
      <3> QED
        BY <1>2, <1>3, <3>1 DEF Words
    <2>4. Words(Grant(n).first) \cap Words(Grant(n).second) = {}
      BY <1>2, <1>3, <1>7, <2>3
    <2> QED
      BY <1>2, <1>3, <1>4, <1>7, <2>1, <2>2, <2>4
  <1>8. CASE A > 0 /\ B = 0
    <2>1. /\ Grant(n).first = [from |-> i0, to |-> i0 + A]
          /\ Grant(n).second = [from |-> 0, to |-> 0]
      BY <1>3, <1>8 DEF Grant, A, B, SpanAt, NoSpan
    <2>2. i0 + A - i0 = A
      BY <1>2, <1>3
    <2>3. Words(Grant(n).second) = {}
      BY <2>1 DEF Words
    <2> QED
      BY <1>2, <1>3, <1>4, <1>8, <2>1, <2>2, <2>3
  <1>9. CASE A = 0 /\ B > 0
    <2>1. /\ Grant(n).first = [from |-> 0, to |-> 0 + B]
          /\ Grant(n).second = [from |-> 0, to |-> 0]
      BY <1>3, <1>9 DEF Grant, A, B, SpanAt, NoSpan
    <2>2. 0 + B - 0 = B
      BY <1>3
    <2>3. Words(Grant(n).second) = {}
      BY <2>1 DEF Words
    <2> QED
      BY <1>3, <1>5, <1>9, <2>1, <2>2, <2>3
  <1> QED
    BY <1>3, <1>6, <1>7, <1>8, <1>9

(* What a worker takes for a hash was written as one: it lies in the       *)
(* Buffer, at an even index of the device's results that is not zero.      *)
LEMMA HashesAtEvenIndices ==
    ASSUME TypeOK, NEW b \in Buf, Shaped(b), NEW w \in HashWords(b)
    PROVE  /\ w \in Region(b) /\ w \in Word
           /\ DeviceIndex(b, w) # 0 /\ DeviceIndex(b, w) % 2 # 1
  <1> DEFINE f == place[b].first
             s == place[b].second
  <1>1. /\ f.from \in Nat /\ f.to \in Nat /\ s.from \in Nat /\ s.to \in Nat
        /\ f.to <= Size /\ s.to <= Size
    BY SizeAssumption DEF TypeOK, Place, Span, Index
  <1>2. /\ (f.to - f.from) % 2 = 1 /\ f.from < f.to
        /\ Words(f) \cap Words(s) = {}
    BY DEF Shaped
  <1>3. \/ w \in Words(f) /\ w >= f.from + 2 /\ (w - f.from) % 2 = 0
        \/ w \in Words(s) /\ (w - s.from) % 2 = 1
    BY DEF HashWords
  <1>4. DeviceIndex(b, w) = IF w \in Words(f) THEN w - f.from
                            ELSE (f.to - f.from) + (w - s.from)
    BY DEF DeviceIndex
  <1>5. w \in Region(b)
    BY <1>3 DEF Region
  <1> HIDE DEF f, s
  <1>6. CASE w \in Words(f)
    <2>1. w >= f.from + 2 /\ (w - f.from) % 2 = 0
      BY <1>2, <1>3, <1>6
    <2>2. w \in Nat /\ w < Size
      BY <1>1, <1>6, SizeAssumption DEF Words
    <2>3. DeviceIndex(b, w) = w - f.from
      BY <1>4, <1>6
    <2> QED
      BY <1>1, <1>5, <2>1, <2>2, <2>3, SizeAssumption DEF Word
  <1>7. CASE w \notin Words(f)
    <2>1. w \in Words(s) /\ (w - s.from) % 2 = 1
      BY <1>3, <1>7
    <2>2. w \in Nat /\ w < Size /\ w >= s.from
      BY <1>1, <2>1, SizeAssumption DEF Words
    <2>3. DeviceIndex(b, w) = (f.to - f.from) + (w - s.from)
      BY <1>4, <1>7
    <2> QED
      BY <1>1, <1>2, <1>5, <2>1, <2>2, <2>3, SizeAssumption DEF Word
  <1> QED
    BY <1>6, <1>7

LEMMA WordsInit == InitWords => WordsInv
  <1> SUFFICES ASSUME InitWords PROVE WordsInv
    OBVIOUS
  <1>1. LayoutInv
    BY LayoutInit DEF InitWords
  <1>2. used = {} /\ results = {} /\ word \in [Word -> {0, 1}]
    BY DEF InitWords, Init
  <1> QED
    BY <1>1, <1>2 DEF WordsInv, HashStartNonzeroInOrder, HashStartNonzero

(* The read-back of a Buffer makes its hashes and touches no other Buffer. *)
LEMMA WriteBackKeeps ==
    ASSUME WordsInv, NEW b \in Buf, WriteBack(b)
    PROVE  WordsInv'
  <1>1. /\ LayoutInv /\ results \subseteq used /\ word \in [Word -> {0, 1}]
        /\ \A a \in used : Shaped(a)
        /\ HashStartNonzeroInOrder
    BY DEF WordsInv
  <1>2. TypeOK /\ UsedDisjoint
    BY <1>1, LayoutDisjoint DEF LayoutInv, FifoInv
  <1>3. UNCHANGED vars
    BY DEF WriteBack
  <1>4. UNCHANGED <<i0, i1, hasSpace, failedAlloc, prev, pinned, newest, life, used,
                    next, place, older, overtaken, late>>
    BY <1>3 DEF vars, ring, chain, ghost
  <1>5. LayoutInv'
    BY <1>1, <1>3, LayoutNext
  <1>6. PICK count \in {0, 1}, nonce \in {0, 1} :
           /\ word' = [w \in Word |->
                         IF w \notin Region(b) THEN word[w]
                         ELSE IF DeviceIndex(b, w) = 0 THEN count
                         ELSE IF DeviceIndex(b, w) % 2 = 1 THEN nonce ELSE 1]
           /\ results' = IF count = 0 THEN results ELSE results \cup {b}
    BY DEF WriteBack
  <1>7. b \in used /\ results' \subseteq used'
    BY <1>1, <1>4, <1>6 DEF WriteBack
  <1>8. word' \in [Word -> {0, 1}]
    BY <1>1, <1>6
  <1>9. \A a \in used' : Shaped(a)'
    BY <1>1, <1>4 DEF Shaped
  <1>10. ASSUME ~late, NEW a \in results', NEW w \in HashWords(a)
         PROVE  word'[w] # 0
    <2>1. a \in used /\ a \in Buf /\ Shaped(a)
      BY <1>1, <1>2, <1>4, <1>7, <1>10 DEF TypeOK
    <2>2. /\ w \in Region(a) /\ w \in Word
          /\ DeviceIndex(a, w) # 0 /\ DeviceIndex(a, w) % 2 # 1
      BY <1>2, <1>10, <2>1, HashesAtEvenIndices
    <2>3. CASE a = b
      BY <1>6, <2>2, <2>3
    <2>4. CASE a # b
      <3>1. w \notin Region(b)
        BY <1>2, <1>7, <1>10, <2>1, <2>2, <2>4 DEF UsedDisjoint
      <3>2. a \in results /\ word[w] # 0
        BY <1>1, <1>6, <1>10, <2>1, <2>4 DEF HashStartNonzeroInOrder, HashStartNonzero
      <3> QED
        BY <1>6, <2>2, <3>1, <3>2
    <2> QED
      BY <2>3, <2>4
  <1>11. HashStartNonzeroInOrder'
    BY <1>4, <1>10 DEF HashStartNonzeroInOrder, HashStartNonzero, HashWords
  <1> QED
    BY <1>5, <1>7, <1>8, <1>9, <1>11 DEF WordsInv

(* A step of the ring moves no Buffer in use.                              *)
LEMMA UsedKeepPlace ==
    ASSUME FifoInv, Next, NEW b \in used', b \in used
    PROVE  place'[b] = place[b]
  <1>1. life[b] = "alive" /\ b \in Buf /\ place \in [Buf -> Place]
    BY DEF FifoInv, UsedAlive, Alive, TypeOK
  <1>2. ASSUME NEW a \in Buf, NEW n \in Requests, AllocBegin(a, n)
        PROVE  place'[b] = place[b]
    BY <1>1, <1>2 DEF AllocBegin
  <1>3. ASSUME NEW a \in Buf, Leave(a)
        PROVE  place'[b] = place[b]
    BY <1>1, <1>3 DEF Leave
  <1>4. ASSUME NEW a \in Buf, Release(a) \/ DecideFree(a) \/ Free(a)
        PROVE  place'[b] = place[b]
    BY <1>4 DEF Release, DecideFree, Free
  <1>5. CASE AllocEnd \/ \E n \in Requests : AllocFails(n)
    BY <1>5 DEF AllocEnd, AllocFails, chain
  <1> QED
    BY <1>2, <1>3, <1>4, <1>5 DEF Next, Alloc, Destroy

(* A Buffer that is new in use has just been granted.                      *)
LEMMA NewlyUsed ==
    ASSUME Next, NEW b \in used', b \notin used
    PROVE  \E n \in Requests : AllocBegin(b, n)
  <1>1. ASSUME NEW a \in Buf, NEW n \in Requests, AllocBegin(a, n)
        PROVE  b = a
    BY <1>1 DEF AllocBegin
  <1>2. ASSUME NEW a \in Buf, Release(a) \/ Destroy(a)
        PROVE  FALSE
    BY <1>2 DEF Release, Destroy, DecideFree, Free, Leave
  <1>3. ~(AllocEnd \/ \E n \in Requests : AllocFails(n))
    BY DEF AllocEnd, AllocFails, chain
  <1> QED
    BY <1>1, <1>2, <1>3 DEF Next, Alloc

LEMMA RingStepKeeps ==
    ASSUME WordsInv, Next, word' = word, results' = results \cap used'
    PROVE  WordsInv'
  <1>1. /\ LayoutInv /\ results \subseteq used /\ word \in [Word -> {0, 1}]
        /\ \A a \in used : Shaped(a)
        /\ HashStartNonzeroInOrder
    BY DEF WordsInv
  <1>2. FifoInv /\ TypeOK /\ i0 \in Position /\ i1 \in Position
    BY <1>1 DEF LayoutInv, FifoInv, Positions
  <1>3. LayoutInv'
    BY <1>1, LayoutNext
  <1>4. late => late'
    BY DEF Next, Alloc, Destroy, AllocBegin, AllocFails, AllocEnd, Release, DecideFree,
           Free, Leave, ghost
  <1>5. ASSUME NEW b \in used' PROVE Shaped(b)'
    <2>1. CASE b \in used
      <3>1. place'[b] = place[b]
        BY <1>2, <2>1, UsedKeepPlace
      <3> QED
        BY <1>1, <2>1, <3>1 DEF Shaped
    <2>2. CASE b \notin used
      <3>1. PICK n \in Requests : AllocBegin(b, n)
        BY <2>2, NewlyUsed
      <3>2. b \in Buf
        BY <1>3 DEF LayoutInv, FifoInv, TypeOK
      <3>3. place'[b] = Grant(n) /\ CanGrant(n)
        BY <1>2, <3>1, <3>2 DEF AllocBegin, TypeOK
      <3> QED
        BY <1>2, <3>3, GrantShaped DEF Shaped
    <2> QED
      BY <2>1, <2>2
  <1>6. ASSUME ~late', NEW b \in results', NEW w \in HashWords(b)'
        PROVE  word'[w] # 0
    <2>1. b \in results /\ b \in used /\ b \in used'
      BY <1>1, <1>6
    <2>2. place'[b] = place[b]
      BY <1>2, <2>1, UsedKeepPlace
    <2>3. w \in HashWords(b)
      BY <1>6, <2>2 DEF HashWords
    <2> QED
      BY <1>1, <1>4, <1>6, <2>1, <2>3 DEF HashStartNonzeroInOrder, HashStartNonzero
  <1>7. HashStartNonzeroInOrder'
    BY <1>6 DEF HashStartNonzeroInOrder, HashStartNonzero
  <1> QED
    BY <1>1, <1>3, <1>5, <1>7 DEF WordsInv

LEMMA WordsStep == WordsInv /\ [NextWords]_<<vars, wordVars>> => WordsInv'
  <1> SUFFICES ASSUME WordsInv, [NextWords]_<<vars, wordVars>> PROVE WordsInv'
    OBVIOUS
  <1>1. CASE \E b \in Buf : WriteBack(b)
    BY <1>1, WriteBackKeeps
  <1>2. CASE Next /\ word' = word /\ results' = results \cap used'
    BY <1>2, RingStepKeeps
  <1>3. CASE UNCHANGED <<vars, wordVars>>
    <2>1. LayoutInv'
      BY <1>3, LayoutNext DEF WordsInv
    <2>2. UNCHANGED <<place, used, late, word, results>>
      BY <1>3 DEF vars, chain, ghost, wordVars
    <2> QED
      BY <2>1, <2>2 DEF WordsInv, Shaped, HashStartNonzeroInOrder, HashStartNonzero,
                        HashWords
  <1> QED
    BY <1>1, <1>2, <1>3 DEF NextWords

(* assert(hashStart != 0) of mine_job holds for every result of every      *)
(* worker, wherever the ring's end splits the Buffers and whatever kernels *)
(* write meanwhile, as long as no overtaken ~Buffer has written i1.        *)
THEOREM HashStartNonzeroInOrderHolds == SpecWords => []HashStartNonzeroInOrder
  <1>1. WordsInv => HashStartNonzeroInOrder
    BY DEF WordsInv
  <1> QED
    BY WordsInit, WordsStep, <1>1, PTL DEF SpecWords
=============================================================================
